---- MODULE Spec2Model ----
(***************************************************************************)
(* A model of the cspx core: the refinement engine (check_refine.rs), the  *)
(* state-space explorer (explore.rs) and the disk state store               *)
(* (disk_store.rs).  Each subsystem has its own specification; the          *)
(* variables of the other subsystems stay at their idle values.             *)
(***************************************************************************)
EXTENDS Integers, Sequences, FiniteSets, TLC

VARIABLES
  \* ---- refinement engine ----
  lts,          \* the transition relation shared by the two providers: a set of <<from, label, to>>
  specInit,     \* initial_state() of the specification provider
  implInit,     \* initial_state() of the implementation provider
  rModel,       \* the RefinementModel of the check in progress ("none" between checks)
  rQueue,       \* bfs_refinement: queue of (node_key, impl_closure, spec_closure)
  rVisited,     \* bfs_refinement: visited node keys
  rPred,        \* bfs_refinement: predecessor map, node_key -> (prev, label)
  rCount,       \* bfs_refinement: states_count, transitions_count
  rFd,          \* failures_divergences_includes: the two caches and the fd counters
  rOutcome,     \* the RefinementOutcome of the finished search ("none" while it runs)
  rResults,     \* the CheckResult returned for each model ("none" until check returned)
  rCall,        \* the last tau_closure call made on its own: its seeds and the Closure returned
  \* ---- explorer ----
  eProvider,    \* transitions(): state -> the successor states, in the order the provider returns them
  eInitial,     \* initial_state()
  eMode,        \* "serial" (explore), "parallel" (explore_parallel), "deterministic"
  eWorkers,     \* the worker count of the thread pool
  eStore,       \* the StateStore: the set of states inserted
  eInsertLog,   \* every store.insert call so far, in call order
  eExpanded,    \* per state, the number of provider.transitions calls on it so far
  eFrontier,    \* serial: the work queue; parallel: the frontier of the current level
  ePc,          \* position of the calling thread
  eTasks,       \* the items handed to the pool for this level (states, or chunks of states)
  eTaskState,   \* per item: "pending", "running" on a worker, "done"
  eBatches,     \* per item: the TransitionBatch its worker returned
  eCandidates,  \* the states the calling thread still has to insert for this level
  eNextFrontier,\* next_frontier
  eStats,       \* states, transitions
  \* ---- disk state store ----
  dLog,         \* the characters of <name>.log
  dIdx,         \* <name>.idx: whether it exists, its header and its record lines
  dLock,        \* <name>.lock: whether it exists, the process that created it, whether that lives
  dStore,       \* per process: its position in open_with_options and the fields of its DiskStateStore
  dSession,     \* per process: the lock attempts of its open call; the states its store had at open or acknowledged since
  dClosed,      \* the states held by the store that was dropped last and its unflushed inserts (not known after a kill)
  dEvent,       \* the open_with_options or insert call that returned in the last step, if any
  \* ---- hybrid store ----
  hPc,          \* "unopened", "open", "failed" (open returned an error), "dropped"
  hOptions,     \* HybridStateStoreOptions: spill_threshold and the index_flush_every of disk_options
  hMem,         \* in_memory
  hSpill,       \* spill_store: the fields of the DiskStateStore, pc = "none" for None
  hLog,         \* the file at the spill path: whether it exists and its characters
  hIdx,         \* the side-car of the spill path
  hLock,        \* whether the lock file of the spill path exists
  hWritable,    \* whether the log and the side-car can be written
  hAcked,       \* the states whose insert returned Ok(true)
  hFailed,      \* the states whose insert returned an error
  hExisting,    \* whether a file was at the spill path before the store was opened
  hEvent,       \* the open or insert call that returned in the last step, if any
  \* ---- minimizer ----
  mCx,          \* the counterexample handed to minimize_with_oracle
  mBest,        \* best
  mIdx,         \* idx of the for loop
  mPc,          \* "idle", "scan" (in the loop), "done" (returned)
  mOracle,      \* the answers preserves_failure has given so far
  mTried,       \* the event sequences of the candidates built in this call
  mRun,         \* 1 for the call on the input, 2 for the call on the output of the first
  mFirst,       \* the counterexample returned by the first call
  mOut,         \* the counterexample returned by this call
  \* ---- run status ----
  sChecks,      \* the statuses of the checks of the run, in order
  sPc,          \* "running", "exited"
  sStatus,      \* the status of the result
  sExit,        \* the exit code
  \* ---- property checkers ----
  pKind,        \* the check in progress: "deadlock", "divergence", "determinism" ("none" when unused)
  pPc,          \* "bfs" (in the while loop), "done" (returned)
  pQueue,       \* queue
  pPrev,        \* visited / prev: the predecessor and label of each discovered state but the initial one
  pOrder,       \* order / states: the discovered states in discovery order
  pEdges,       \* tau_edges (divergence) or transitions_from (determinism) of the states taken so far
  pStats,       \* states, transitions
  pResult,      \* the CheckResult returned
  \* ---- CSPM transition provider ----
  cProgram,     \* the Program of the provider: exprs, proc_roots, resolved
  cQueue,       \* the states of the program still to be visited
  cVisited,     \* the states found so far
  cBytes,       \* the encodings of the states found so far
  cCall,        \* the last state visited, what two transitions() calls returned for it, its encoding decoded
  cStatus       \* "module" before from_module, then "ok", its error message, or "overflow"

rvars == <<lts, specInit, implInit, rModel, rQueue, rVisited, rPred, rCount, rFd, rOutcome, rResults,
           rCall>>

evars == <<eProvider, eInitial, eMode, eWorkers, eStore, eInsertLog, eExpanded, eFrontier, ePc,
           eTasks, eTaskState, eBatches, eCandidates, eNextFrontier, eStats>>

dvars == <<dLog, dIdx, dLock, dStore, dSession, dClosed, dEvent>>

hvars == <<hPc, hOptions, hMem, hSpill, hLog, hIdx, hLock, hWritable, hAcked, hFailed, hExisting, hEvent>>

mvars == <<mCx, mBest, mIdx, mPc, mOracle, mTried, mRun, mFirst, mOut>>

svars == <<sChecks, sPc, sStatus, sExit>>

pvars == <<pKind, pPc, pQueue, pPrev, pOrder, pEdges, pStats, pResult>>

cvars == <<cProgram, cQueue, cVisited, cBytes, cCall, cStatus>>

vars == <<rvars, evars, dvars, hvars, mvars, svars, pvars, cvars>>

----------------------------------------------------------------------------
(* Bounds of the refinement inputs. *)
MaxLtsState == 1
MaxLtsEdges == 2

LtsStates == 0 .. MaxLtsState

TAU == "tau"

\* The visible labels, in the order String::cmp gives them ("a" < "b" < "tau").
VisibleLabels == <<"a", "b">>
AllLabels == VisibleLabels \o <<TAU>>

LabelRank(l) == CHOOSE i \in 1 .. Len(AllLabels) : AllLabels[i] = l

Models == <<"T", "F", "FD">>

----------------------------------------------------------------------------
(* Generic helpers. *)

Range(s) == {s[i] : i \in 1 .. Len(s)}

RECURSIVE SetToSortedSeq(_)
SetToSortedSeq(S) ==
  IF S = {} THEN <<>>
  ELSE LET m == CHOOSE x \in S : \A y \in S : x <= y
       IN <<m>> \o SetToSortedSeq(S \ {m})

\* Sequences over S of length at most n.
RECURSIVE SeqsUpTo(_, _)
SeqsUpTo(S, n) ==
  IF n = 0 THEN {<<>>}
  ELSE LET shorter == SeqsUpTo(S, n - 1)
       IN shorter \cup {Append(t, x) : t \in shorter, x \in S}

\* Subsets of S with at most n elements.
RECURSIVE SubsetsUpTo(_, _)
SubsetsUpTo(S, n) ==
  IF n = 0 \/ S = {} THEN {{}}
  ELSE LET x == CHOOSE y \in S : TRUE
           rest == S \ {x}
       IN SubsetsUpTo(rest, n) \cup {T \cup {x} : T \in SubsetsUpTo(rest, n - 1)}

----------------------------------------------------------------------------
(* The transition provider: transitions(state) sorted by (label, next state). *)

TransLess(x, y) ==
  \/ LabelRank(x[1]) < LabelRank(y[1])
  \/ LabelRank(x[1]) = LabelRank(y[1]) /\ x[2] <= y[2]

RECURSIVE SortTransitions(_)
SortTransitions(S) ==
  IF S = {} THEN <<>>
  ELSE LET m == CHOOSE x \in S : \A y \in S : TransLess(x, y)
       IN <<m>> \o SortTransitions(S \ {m})

Transitions(state) ==
  SortTransitions({<<e[2], e[3]>> : e \in {d \in lts : d[1] = state}})

----------------------------------------------------------------------------
(* tau_closure, enabled_visible_labels, next_by_label. *)

\* Mutant of TauPush: the label of a transition is not looked at.
RECURSIVE TauPushAnyLabel(_, _, _, _)
TauPushAnyLabel(trs, i, queue, visited) ==
  IF i > Len(trs) THEN [queue |-> queue, visited |-> visited]
  ELSE IF trs[i][2] \in visited
       THEN TauPushAnyLabel(trs, i + 1, queue, visited)
       ELSE TauPushAnyLabel(trs, i + 1, Append(queue, trs[i][2]), visited \cup {trs[i][2]})

\* The successors of `state` that the loop of tau_closure pushes, in order.
RECURSIVE TauPush(_, _, _, _)
TauPush(trs, i, queue, visited) ==
  IF i > Len(trs) THEN [queue |-> queue, visited |-> visited]
  ELSE IF trs[i][1] # TAU \/ trs[i][2] \in visited
       THEN TauPush(trs, i + 1, queue, visited)
       ELSE TauPush(trs, i + 1, Append(queue, trs[i][2]), visited \cup {trs[i][2]})

RECURSIVE TauBfs(_, _)
TauBfs(queue, visited) ==
  IF queue = <<>> THEN visited
  ELSE LET Continue(r) == TauBfs(r.queue, r.visited)
       IN Continue(TauPush(Transitions(Head(queue)), 1, Tail(queue), visited))

\* for seed in seeds { if visited.insert(seed) { queue.push_back(seed) } }
RECURSIVE TauSeeds(_, _, _, _)
TauSeeds(seeds, i, queue, visited) ==
  IF i > Len(seeds) THEN [queue |-> queue, visited |-> visited]
  ELSE IF seeds[i] \in visited
       THEN TauSeeds(seeds, i + 1, queue, visited)
       ELSE TauSeeds(seeds, i + 1, Append(queue, seeds[i]), visited \cup {seeds[i]})

\* Mutant of tau_closure: the seeds alone, no tau transition followed.
tau_closure_seeds_only(seeds) == SetToSortedSeq(Range(seeds))

\* A Closure: its states in ascending order of their encoding (which is also its sig).
tau_closure(seeds) ==
  LET Seeded(r) == SetToSortedSeq(TauBfs(r.queue, r.visited))
  IN Seeded(TauSeeds(seeds, 1, <<>>, {}))

enabled_visible_labels(states) ==
  LET ls == {t[1] : t \in UNION {Range(Transitions(states[i])) : i \in 1 .. Len(states)}}
  IN SelectSeq(VisibleLabels, LAMBDA l : l \in ls)

\* The seeds next_by_label collects: the targets of the transitions with the
\* label, state by state in closure order, equal targets as often as found.
RECURSIVE LabelSeeds(_, _)
LabelSeeds(from_closure, label) ==
  IF from_closure = <<>> THEN <<>>
  ELSE LET Targets(ts) == [i \in 1 .. Len(ts) |-> ts[i][2]]
       IN Targets(SelectSeq(Transitions(Head(from_closure)), LAMBDA t : t[1] = label))
          \o LabelSeeds(Tail(from_closure), label)

next_by_label(from_closure, label) == tau_closure(LabelSeeds(from_closure, label))

----------------------------------------------------------------------------
(* Stable states, offers and divergence of a closure. *)

\* Mutant of is_stable: every state counts as stable.
is_stable_any(state) == TRUE

is_stable(state) == \A t \in Range(Transitions(state)) : t[1] # TAU

offered_visible_labels(state) ==
  {t[1] : t \in {u \in Range(Transitions(state)) : u[1] # TAU}}

RECURSIVE stable_offer_sets(_)
stable_offer_sets(closure_states) ==
  IF closure_states = <<>> THEN <<>>
  ELSE LET rest == stable_offer_sets(Tail(closure_states))
       IN IF is_stable(Head(closure_states))
          THEN <<offered_visible_labels(Head(closure_states))>> \o rest
          ELSE rest

\* Mutant of OfferMatched: a proper subset is asked for.
OfferMatchedProper(spec_stable_offers, impl_offer) ==
  \E i \in 1 .. Len(spec_stable_offers) :
    spec_stable_offers[i] \subseteq impl_offer /\ spec_stable_offers[i] # impl_offer

\* Vec::any over the spec's stable offers: spec_offer.is_subset(&impl_offer).
OfferMatched(spec_stable_offers, impl_offer) ==
  \E i \in 1 .. Len(spec_stable_offers) : spec_stable_offers[i] \subseteq impl_offer

MinLabel(S) == CHOOSE l \in S : \A m \in S : LabelRank(l) <= LabelRank(m)

\* Mutant of refusal_mismatch_tags: the class tag alone.
refusal_mismatch_tags_bare(spec_stable_offers, impl_offer) == <<(<<"refusal_mismatch">>)>>

refusal_mismatch_tags(spec_stable_offers, impl_offer) ==
  LET RECURSIVE firstRefuse(_)
      firstRefuse(i) ==
        IF i > Len(spec_stable_offers) THEN <<>>
        ELSE IF spec_stable_offers[i] \ impl_offer # {}
             THEN <<(<<"refuse", MinLabel(spec_stable_offers[i] \ impl_offer)>>)>>
             ELSE firstRefuse(i + 1)
  IN <<(<<"refusal_mismatch">>)>> \o firstRefuse(1)

\* tau_successor_indices: the tau successors that lie inside the closure, in transition order.
tau_successor_indices(state, closure_set) ==
  LET Targets(ts) == [i \in 1 .. Len(ts) |-> ts[i][2]]
  IN Targets(SelectSeq(Transitions(state), LAMBDA t : t[1] = TAU /\ t[2] \in closure_set))

RECURSIVE DfsVisit(_, _, _)
RECURSIVE DfsNeighbors(_, _, _, _)
DfsNeighbors(closure_set, neighbors, cursor, color) ==
  IF cursor > Len(neighbors) THEN [cycle |-> FALSE, color |-> color]
  ELSE LET next == neighbors[cursor]
       IN CASE color[next] = "WHITE" ->
                 LET After(r) ==
                       IF r.cycle THEN r
                       ELSE DfsNeighbors(closure_set, neighbors, cursor + 1, r.color)
                 IN After(DfsVisit(closure_set, next, color))
            [] color[next] = "GRAY" -> [cycle |-> TRUE, color |-> color]
            [] OTHER -> DfsNeighbors(closure_set, neighbors, cursor + 1, color)

DfsVisit(closure_set, node, color) ==
  LET After(r) ==
        IF r.cycle THEN r
        ELSE [cycle |-> FALSE, color |-> [r.color EXCEPT ![node] = "BLACK"]]
  IN After(DfsNeighbors(closure_set, tau_successor_indices(node, closure_set), 1,
                        [color EXCEPT ![node] = "GRAY"]))

RECURSIVE DfsFrom(_, _, _)
DfsFrom(closure_states, start, color) ==
  IF start > Len(closure_states) THEN FALSE
  ELSE IF color[closure_states[start]] # "WHITE"
       THEN DfsFrom(closure_states, start + 1, color)
       ELSE LET After(r) == r.cycle \/ DfsFrom(closure_states, start + 1, r.color)
            IN After(DfsVisit(Range(closure_states), closure_states[start], color))

closure_has_tau_cycle(closure_states) ==
  IF closure_states = <<>> THEN FALSE
  ELSE DfsFrom(closure_states, 1, [s \in Range(closure_states) |-> "WHITE"])

----------------------------------------------------------------------------
(* The FD caches. *)

EmptyMap == [x \in {} |-> x]

InitFd ==
  [nextCache |-> EmptyMap, nextHits |-> 0, nextMisses |-> 0,
   divCache |-> EmptyMap, divHits |-> 0, divMisses |-> 0,
   divergence_checks |-> 0, divergence_prunes |-> 0,
   impl_closure_max |-> 0, spec_closure_max |-> 0]

Max(a, b) == IF a >= b THEN a ELSE b

\* Mutant of CachedNextByLabel: entries kept per side and signature only, the
\* label not part of the key.
CachedNextByLabelSigOnly(fd, side, from_closure, label) ==
  LET key == <<side, from_closure, TAU>>
  IN IF key \in DOMAIN fd.nextCache
     THEN [closure |-> fd.nextCache[key],
           fd |-> [fd EXCEPT !.nextHits = @ + 1]]
     ELSE LET Miss(computed) ==
                [closure |-> computed,
                 fd |-> [fd EXCEPT !.nextMisses = @ + 1,
                                   !.nextCache = @ @@ (key :> computed)]]
          IN Miss(next_by_label(from_closure, label))

\* NextClosureCache::next_by_label: the closure and the cache after the lookup.
CachedNextByLabel(fd, side, from_closure, label) ==
  LET key == <<side, from_closure, label>>
  IN IF key \in DOMAIN fd.nextCache
     THEN [closure |-> fd.nextCache[key],
           fd |-> [fd EXCEPT !.nextHits = @ + 1]]
     ELSE LET Miss(computed) ==
                [closure |-> computed,
                 fd |-> [fd EXCEPT !.nextMisses = @ + 1,
                                   !.nextCache = @ @@ (key :> computed)]]
          IN Miss(next_by_label(from_closure, label))

\* DivergenceCache::has_tau_cycle: the answer and the cache after the lookup.
CachedHasTauCycle(fd, side, closure_sig, closure_states) ==
  LET key == <<side, closure_sig>>
  IN IF key \in DOMAIN fd.divCache
     THEN [value |-> fd.divCache[key],
           fd |-> [fd EXCEPT !.divHits = @ + 1]]
     ELSE LET Miss(computed) ==
                [value |-> computed,
                 fd |-> [fd EXCEPT !.divMisses = @ + 1,
                                   !.divCache = @ @@ (key :> computed)]]
          IN Miss(closure_has_tau_cycle(closure_states))

----------------------------------------------------------------------------
(* reconstruct_trace and the node predicates of the three models. *)

RECURSIVE reconstruct_trace(_, _)
reconstruct_trace(predecessor, to) ==
  IF to \in DOMAIN predecessor
  THEN Append(reconstruct_trace(predecessor, predecessor[to][1]), predecessor[to][2])
  ELSE <<>>

NoFailure == [trace |-> <<>>, tags |-> <<>>]

\* The stable-offer predicate shared by F and FD: the first stable impl state
\* whose offer no stable spec state matches fails the node.
RECURSIVE StableOfferCheck(_, _, _, _, _)
StableOfferCheck(impl_states, i, spec_stable_offers, pred, node_key) ==
  IF i > Len(impl_states) THEN [action |-> "Continue", failure |-> NoFailure]
  ELSE IF ~is_stable(impl_states[i])
            \/ OfferMatched(spec_stable_offers, offered_visible_labels(impl_states[i]))
       THEN StableOfferCheck(impl_states, i + 1, spec_stable_offers, pred, node_key)
       ELSE [action |-> "Fail",
             failure |-> [trace |-> reconstruct_trace(pred, node_key),
                          tags |-> refusal_mismatch_tags(spec_stable_offers,
                                     offered_visible_labels(impl_states[i]))]]

TraceNodeCheck(node_key, pred, fd) ==
  [action |-> "Continue", failure |-> NoFailure, fd |-> fd]

FailuresNodeCheck(node_key, pred, fd) ==
  LET Result(r) == [action |-> r.action, failure |-> r.failure, fd |-> fd]
  IN Result(StableOfferCheck(node_key[1], 1, stable_offer_sets(node_key[2]), pred, node_key))

\* Mutant of FdDecide: a diverging impl closure fails whatever the
\* specification does.
FdDecideImplOnly(node_key, pred, sd, id, offers) ==
  IF id.value
  THEN [action |-> "Fail",
        failure |-> [trace |-> Append(reconstruct_trace(pred, node_key), TAU),
                     tags |-> <<(<<"divergence_mismatch">>), (<<"divergence">>)>>],
        fd |-> id.fd]
  ELSE IF sd.value
  THEN [action |-> "Prune", failure |-> NoFailure,
        fd |-> [id.fd EXCEPT !.divergence_prunes = @ + 1]]
  ELSE [action |-> offers.action, failure |-> offers.failure, fd |-> id.fd]

\* The closure of failures_divergences_includes once both divergence answers
\* are known: sd for the spec closure, id for the impl closure (id.fd holds the
\* caches after both lookups), offers the outcome of the stable-offer predicate.
FdDecide(node_key, pred, sd, id, offers) ==
  IF id.value /\ ~sd.value
  THEN [action |-> "Fail",
        failure |-> [trace |-> Append(reconstruct_trace(pred, node_key), TAU),
                     tags |-> <<(<<"divergence_mismatch">>), (<<"divergence">>)>>],
        fd |-> id.fd]
  ELSE IF sd.value
  THEN [action |-> "Prune", failure |-> NoFailure,
        fd |-> [id.fd EXCEPT !.divergence_prunes = @ + 1]]
  ELSE [action |-> offers.action, failure |-> offers.failure, fd |-> id.fd]

\* Mutant of FdEnterNode: one divergence check counted per node.
FdEnterNodeCountingOne(node_key, fd) ==
  [fd EXCEPT !.impl_closure_max = Max(@, Len(node_key[1])),
             !.spec_closure_max = Max(@, Len(node_key[2])),
             !.divergence_checks = @ + 1]

\* The counters failures_divergences_includes advances on entering a node.
FdEnterNode(node_key, fd) ==
  [fd EXCEPT !.impl_closure_max = Max(@, Len(node_key[1])),
             !.spec_closure_max = Max(@, Len(node_key[2])),
             !.divergence_checks = @ + 2]

\* Mutant of FdNodeCheck: the divergence tests only, the stable-offer
\* predicate of F left out.
FdNodeCheckNoRefusals(node_key, pred, fd) ==
  LET WithSpec(sd) ==
        FdDecide(node_key, pred, sd,
                 CachedHasTauCycle(sd.fd, "Impl", node_key[1], node_key[1]),
                 [action |-> "Continue", failure |-> NoFailure])
  IN WithSpec(CachedHasTauCycle(FdEnterNode(node_key, fd), "Spec", node_key[2], node_key[2]))

FdNodeCheck(node_key, pred, fd) ==
  LET WithSpec(sd) ==
        FdDecide(node_key, pred, sd,
                 CachedHasTauCycle(sd.fd, "Impl", node_key[1], node_key[1]),
                 StableOfferCheck(node_key[1], 1, stable_offer_sets(node_key[2]), pred, node_key))
  IN WithSpec(CachedHasTauCycle(FdEnterNode(node_key, fd), "Spec", node_key[2], node_key[2]))

NodeCheck(model, node_key, pred, fd) ==
  CASE model = "T" -> TraceNodeCheck(node_key, pred, fd)
    [] model = "F" -> FailuresNodeCheck(node_key, pred, fd)
    [] OTHER -> FdNodeCheck(node_key, pred, fd)

----------------------------------------------------------------------------
(* bfs_refinement: the expansion of one node, label by label. *)

\* Mutant of ExpandOne: a new node is stored and queued without its
\* predecessor entry.
ExpandOneWithoutPredecessor(node_key, label, st, ic, sc) ==
  IF sc.closure = <<>>
  THEN [st EXCEPT !.transitions = @ + 1, !.fd = sc.fd,
                  !.failed = TRUE,
                  !.failure = [trace |-> Append(reconstruct_trace(st.pred, node_key), label),
                               tags |-> <<(<<"trace_mismatch">>)>>]]
  ELSE IF <<ic.closure, sc.closure>> \in st.visited
  THEN [st EXCEPT !.transitions = @ + 1, !.fd = sc.fd]
  ELSE [st EXCEPT !.transitions = @ + 1, !.fd = sc.fd,
                  !.visited = @ \cup {<<ic.closure, sc.closure>>},
                  !.queue = Append(@, <<ic.closure, sc.closure>>),
                  !.states = @ + 1]

\* One label of the loop, once both next closures are known (ic, sc: closure
\* and caches after the lookup): st with the transition counted, the failure
\* if the specification cannot follow, the new node if it was not visited.
ExpandOne(node_key, label, st, ic, sc) ==
  IF sc.closure = <<>>
  THEN [st EXCEPT !.transitions = @ + 1, !.fd = sc.fd,
                  !.failed = TRUE,
                  !.failure = [trace |-> Append(reconstruct_trace(st.pred, node_key), label),
                               tags |-> <<(<<"trace_mismatch">>)>>]]
  ELSE IF <<ic.closure, sc.closure>> \in st.visited
  THEN [st EXCEPT !.transitions = @ + 1, !.fd = sc.fd]
  ELSE [st EXCEPT !.transitions = @ + 1, !.fd = sc.fd,
                  !.visited = @ \cup {<<ic.closure, sc.closure>>},
                  !.pred = @ @@ (<<ic.closure, sc.closure>> :> <<node_key, label>>),
                  !.queue = Append(@, <<ic.closure, sc.closure>>),
                  !.states = @ + 1]

\* The two next-closure lookups of one label: through the cache under FD,
\* direct otherwise.
ExpandLookup(model, node_key, label, st) ==
  IF model = "FD"
  THEN LET WithImpl(ic) ==
             ExpandOne(node_key, label, st, ic,
                       CachedNextByLabel(ic.fd, "Spec", node_key[2], label))
       IN WithImpl(CachedNextByLabel(st.fd, "Impl", node_key[1], label))
  ELSE ExpandOne(node_key, label, st,
                 [closure |-> next_by_label(node_key[1], label), fd |-> st.fd],
                 [closure |-> next_by_label(node_key[2], label), fd |-> st.fd])

\* The loop `for label in labels` of bfs_refinement on the node `node_key`:
\* st carries the queue, visited set, predecessor map, counters and caches;
\* the loop stops at the first label the specification cannot follow.
RECURSIVE ExpandLabels(_, _, _, _, _)
ExpandLabels(model, node_key, labels, i, st) ==
  IF i > Len(labels) \/ st.failed THEN st
  ELSE ExpandLabels(model, node_key, labels, i + 1,
                    ExpandLookup(model, node_key, labels[i], st))

NotDone == [done |-> FALSE, refines |-> FALSE, failure |-> NoFailure]

\* The search state at the pop of node_key, after its node predicate chk.
AfterNodeCheck(model, node_key, chk, st0) ==
  CASE chk.action = "Fail" -> [st0 EXCEPT !.fd = chk.fd, !.failed = TRUE, !.failure = chk.failure]
    [] chk.action = "Prune" -> [st0 EXCEPT !.fd = chk.fd]
    [] OTHER -> ExpandLabels(model, node_key, enabled_visible_labels(node_key[1]), 1,
                             [st0 EXCEPT !.fd = chk.fd])

\* One iteration of `while let Some(..) = queue.pop_front()`.
BfsIteration(model, queue, visited, pred, count, fd) ==
  AfterNodeCheck(model, Head(queue), NodeCheck(model, Head(queue), pred, fd),
                 [queue |-> Tail(queue), visited |-> visited, pred |-> pred,
                  states |-> count.states, transitions |-> count.transitions,
                  fd |-> fd, failed |-> FALSE, failure |-> NoFailure])

----------------
(* The oracle of the minimizer: replay_trace and counterexample_still_fails. *)

RECURSIVE ReplayFrom(_, _, _, _, _)
ReplayFrom(trace, i, impl_closure, spec_closure, trace_mismatch) ==
  IF i > Len(trace)
  THEN [ok |-> TRUE, impl_closure |-> impl_closure, spec_closure |-> spec_closure,
        trace_mismatch |-> trace_mismatch]
  ELSE LET WithSpec(impl_next, spec_next) ==
             ReplayFrom(trace, i + 1, impl_next, spec_next, spec_next = <<>>)
           WithImpl(impl_next) ==
             IF impl_next = <<>>
             THEN [ok |-> FALSE, impl_closure |-> <<>>, spec_closure |-> <<>>,
                   trace_mismatch |-> FALSE]
             ELSE IF trace_mismatch
             THEN ReplayFrom(trace, i + 1, impl_next, spec_closure, TRUE)
             ELSE WithSpec(impl_next, next_by_label(spec_closure, trace[i]))
       IN WithImpl(next_by_label(impl_closure, trace[i]))

replay_trace(trace) ==
  ReplayFrom(trace, 1, tau_closure(<<implInit>>), tau_closure(<<specInit>>), FALSE)

has_refusal_mismatch(replay) ==
  \E i \in 1 .. Len(replay.impl_closure) :
    /\ is_stable(replay.impl_closure[i])
    /\ ~OfferMatched(stable_offer_sets(replay.spec_closure),
                     offered_visible_labels(replay.impl_closure[i]))

counterexample_still_fails(model, trace, required_tags) ==
  IF <<"divergence_mismatch">> \in Range(required_tags) /\ TAU \notin Range(trace)
  THEN FALSE
  ELSE LET FdFails(replay, spec_diverges, impl_diverges) ==
             IF impl_diverges /\ ~spec_diverges THEN TRUE
             ELSE IF spec_diverges THEN FALSE
             ELSE has_refusal_mismatch(replay)
           Fails(replay) ==
             IF ~replay.ok THEN FALSE
             ELSE IF replay.trace_mismatch THEN TRUE
             ELSE CASE model = "T" -> FALSE
                    [] model = "F" -> has_refusal_mismatch(replay)
                    [] OTHER -> FdFails(replay,
                                        closure_has_tau_cycle(replay.spec_closure),
                                        closure_has_tau_cycle(replay.impl_closure))
       IN Fails(replay_trace(trace))

----------------------------------------------------------------------------
(* TraceHeuristicMinimizer::minimize_with_oracle and BasicExplainer::explain. *)

RemoveAt(seq, idx) == SubSeq(seq, 1, idx - 1) \o SubSeq(seq, idx + 1, Len(seq))

\* The loop of minimize_with_oracle: drop the first event whose removal the
\* oracle accepts, and scan again from the start.
RECURSIVE MinimizeLoop(_, _, _)
MinimizeLoop(model, best, required_tags) ==
  LET Reduce(ok) ==
        IF ok = {} THEN best
        ELSE MinimizeLoop(model, RemoveAt(best, CHOOSE idx \in ok : \A j \in ok : idx <= j),
                          required_tags)
  IN Reduce({idx \in 1 .. Len(best) :
               counterexample_still_fails(model, RemoveAt(best, idx), required_tags)})

minimize_with_oracle(model, events, required_tags) ==
  IF ~counterexample_still_fails(model, events, required_tags)
  THEN [events |-> events, is_minimized |-> FALSE]
  ELSE [events |-> MinimizeLoop(model, events, required_tags), is_minimized |-> TRUE]

\* tags.retain(|tag| dedup.insert(tag)): the first occurrence of each tag stays.
RECURSIVE DedupTags(_, _)
DedupTags(tags, seen) ==
  IF tags = <<>> THEN <<>>
  ELSE IF Head(tags) \in seen THEN DedupTags(Tail(tags), seen)
       ELSE <<Head(tags)>> \o DedupTags(Tail(tags), seen \cup {Head(tags)})

ExplainKinds == <<"deadlock", "divergence", "nondeterminism", "refinement">>

RECURSIVE KindTags(_, _)
KindTags(tags, k) ==
  IF k > Len(ExplainKinds) THEN tags
  ELSE KindTags(IF <<ExplainKinds[k]>> \in Range(tags)
                THEN Append(tags, <<"kind", ExplainKinds[k]>>)
                ELSE tags, k + 1)

explain(tags) == DedupTags(Append(KindTags(tags, 1), <<"explained">>), {})

----------------------------------------------------------------------------
(* RefinementChecker::check as a state machine: the search runs one node per *)
(* step; the three models are requested in turn on the same (spec, impl).    *)

EdgeUniverse == LtsStates \X Range(AllLabels) \X LtsStates

NoResult ==
  [status |-> "none", has_counterexample |-> FALSE, events |-> <<>>, is_minimized |-> FALSE,
   tags |-> <<>>, states |-> 0, transitions |-> 0, fd |-> InitFd]

NoClosureCall == [called |-> FALSE, seeds |-> <<>>, closure |-> <<>>]

InitRefineIdle ==
  /\ rModel = "none"
  /\ rQueue = <<>>
  /\ rVisited = {}
  /\ rPred = EmptyMap
  /\ rCount = [states |-> 0, transitions |-> 0]
  /\ rFd = InitFd
  /\ rOutcome = NotDone
  /\ rResults = [m \in Range(Models) |-> NoResult]
  /\ rCall = NoClosureCall

\* The states reachable from `from` along the edges of `edges`.
RECURSIVE ReachableFrom(_, _)
ReachableFrom(edges, from) ==
  LET more == from \cup {e[3] : e \in {d \in edges : d[1] \in from}}
  IN IF more = from THEN from ELSE ReachableFrom(edges, more)

\* The inputs: two processes of one transition system with at most MaxLtsEdges
\* transitions, none of them leaving a state neither process can reach.
InitRefine ==
  /\ specInit \in LtsStates
  /\ implInit \in LtsStates
  /\ lts \in {es \in SubsetsUpTo(EdgeUniverse, MaxLtsEdges) :
                \A e \in es : e[1] \in ReachableFrom(es, {specInit, implInit})}
  /\ InitRefineIdle

\* Bounds of the inputs with separate processes.
MaxImplState == 2   \* the implementation has the states 0 .. MaxImplState
MaxImplEdges == 3   \* and at most MaxImplEdges transitions

ImplStates == 0 .. MaxImplState

\* The single state of the specification process.
SpecState == MaxImplState + 1

ProcessLabels == {"a", TAU}

MaxSeeds == 2   \* tau_closure is called with at most MaxSeeds seeds

\* The inputs of a tau_closure call made on its own: any provider with at
\* most MaxLtsEdges transitions over a and tau.
InitClosure ==
  /\ specInit = 0
  /\ implInit = 0
  /\ lts \in SubsetsUpTo(LtsStates \X ProcessLabels \X LtsStates, MaxLtsEdges)
  /\ InitRefineIdle

\* tau_closure(provider, seeds)
TauClosureCall(seeds) ==
  /\ rCall' = [called |-> TRUE, seeds |-> seeds, closure |-> tau_closure(seeds)]
  /\ UNCHANGED <<lts, specInit, implInit, rModel, rQueue, rVisited, rPred, rCount, rFd, rOutcome,
                 rResults>>

\* The inputs: an implementation with its own states and at most MaxImplEdges
\* transitions over a and tau, all leaving reachable states, and a
\* specification of one state with any of its loops.
InitRefineSeparate ==
  /\ implInit = 0
  /\ specInit = SpecState
  /\ \E impl_edges \in {es \in SubsetsUpTo(ImplStates \X ProcessLabels \X ImplStates, MaxImplEdges) :
                           \A e \in es : e[1] \in ReachableFrom(es, {0})},
        spec_edges \in SUBSET ({SpecState} \X ProcessLabels \X {SpecState}) :
       lts = impl_edges \cup spec_edges
  /\ InitRefineIdle

\* The model of the next request: T, then F, then FD.
NextModel ==
  IF rResults["T"].status = "none" THEN "T"
  ELSE IF rResults["F"].status = "none" THEN "F"
  ELSE IF rResults["FD"].status = "none" THEN "FD"
  ELSE "none"

\* check() up to the first pop of bfs_refinement.
StartCheck ==
  /\ rModel = "none"
  /\ NextModel # "none"
  /\ LET impl0 == tau_closure(<<implInit>>)
         spec0 == tau_closure(<<specInit>>)
         initial_key == <<impl0, spec0>>
     IN /\ rModel' = NextModel
        /\ rVisited' = {initial_key}
        /\ rQueue' = <<initial_key>>
        /\ rPred' = EmptyMap
        /\ rCount' = [states |-> 1, transitions |-> 0]
        /\ rFd' = InitFd
        /\ rOutcome' = NotDone
  /\ UNCHANGED <<lts, specInit, implInit, rResults, rCall>>

\* One iteration of the loop of bfs_refinement, or its exit when the queue is empty.
BfsStep ==
  /\ rModel # "none"
  /\ ~rOutcome.done
  /\ IF rQueue = <<>>
     THEN /\ rOutcome' = [done |-> TRUE, refines |-> TRUE, failure |-> NoFailure]
          /\ UNCHANGED <<rQueue, rVisited, rPred, rCount, rFd>>
     ELSE LET Store(st) ==
                /\ rQueue' = st.queue
                /\ rVisited' = st.visited
                /\ rPred' = st.pred
                /\ rCount' = [states |-> st.states, transitions |-> st.transitions]
                /\ rFd' = st.fd
                /\ rOutcome' = IF st.failed
                               THEN [done |-> TRUE, refines |-> FALSE, failure |-> st.failure]
                               ELSE NotDone
          IN Store(BfsIteration(rModel, rQueue, rVisited, rPred, rCount, rFd))
  /\ UNCHANGED <<lts, specInit, implInit, rModel, rResults, rCall>>

\* The diagnostic tags failures_divergences_includes attaches to its outcome.
DiagnosticTags(model, count, fd) ==
  IF model # "FD" THEN <<>>
  ELSE <<(<<"fd_nodes", count.states>>),
         (<<"fd_edges", count.transitions>>),
         (<<"fd_divergence_checks", fd.divergence_checks>>),
         (<<"fd_pruned_nodes", fd.divergence_prunes>>),
         (<<"fd_impl_closure_max", fd.impl_closure_max>>),
         (<<"fd_spec_closure_max", fd.spec_closure_max>>),
         (<<"fd_closure_cache_hits", fd.nextHits>>),
         (<<"fd_closure_cache_misses", fd.nextMisses>>),
         (<<"fd_divergence_cache_hits", fd.divHits>>),
         (<<"fd_divergence_cache_misses", fd.divMisses>>)>>

\* The CheckResult check() builds from a finished search.
CheckResultOf(model, outcome, count, fd) ==
  IF outcome.refines
  THEN [NoResult EXCEPT !.status = "Pass", !.states = count.states,
                        !.transitions = count.transitions, !.fd = fd]
  ELSE LET Failed(tags, min) ==
             [status |-> "Fail", has_counterexample |-> TRUE, events |-> min.events,
              is_minimized |-> min.is_minimized, tags |-> explain(tags),
              states |-> count.states, transitions |-> count.transitions, fd |-> fd]
           Minimized(tags) ==
             Failed(tags, minimize_with_oracle(model, outcome.failure.trace, tags))
       IN Minimized(<<(<<"refinement">>), (<<"model", model>>)>>
                      \o DiagnosticTags(model, count, fd) \o outcome.failure.tags)

\* check() from the end of the search to its return.
ReturnCheck ==
  /\ rModel # "none"
  /\ rOutcome.done
  /\ rResults' = [rResults EXCEPT ![rModel] = CheckResultOf(rModel, rOutcome, rCount, rFd)]
  /\ rModel' = "none"
  /\ UNCHANGED <<lts, specInit, implInit, rQueue, rVisited, rPred, rCount, rFd, rOutcome, rCall>>

----------------------------------------------------------------------------
(* The explorer (explore.rs): serial BFS, level-synchronous parallel BFS    *)
(* and its deterministic variant.  The pool's threads take the items of a   *)
(* level in any order; at most eWorkers of them run at a time.              *)

MaxState == 2      \* explorer states are 0 .. MaxState
MaxEdges == 3      \* total number of transitions of a provider
MaxWorkers == 2

States == 0 .. MaxState

RECURSIVE SumLen(_, _)
SumLen(f, S) ==
  IF S = {} THEN 0
  ELSE LET s == CHOOSE x \in S : TRUE
       IN Len(f[s]) + SumLen(f, S \ {s})

\* The successor lists given by a list of (from, to) pairs: transitions(s)
\* returns the targets of the pairs from s, in list order.
ProviderOf(pairs) ==
  [s \in States |->
     LET mine == SelectSeq(pairs, LAMBDA e : e[1] = s)
     IN [i \in 1 .. Len(mine) |-> mine[i][2]]]

\* The states reachable from `from` through the provider p.
RECURSIVE Reach(_, _)
Reach(p, from) ==
  LET Grow(more) == IF more = from THEN from ELSE Reach(p, more)
  IN Grow(from \cup UNION {Range(p[s]) : s \in from})

\* Vec::sort followed by Vec::dedup: ascending, without duplicates.
SortDedupIdentity(seq) == seq

SortDedup(seq) == SetToSortedSeq(Range(seq))

EmptyBatch == [generated_transitions |-> 0, states |-> <<>>]

\* The closure of par_iter().map in the non-deterministic mode: one state.
ExpandState(state) ==
  [generated_transitions |-> Len(eProvider[state]), states |-> eProvider[state]]

\* The successors of the states of a chunk, concatenated in chunk order.
RECURSIVE ChunkSuccessors(_)
ChunkSuccessors(chunk) ==
  IF chunk = <<>> THEN <<>>
  ELSE eProvider[Head(chunk)] \o ChunkSuccessors(Tail(chunk))

\* Mutant of ExpandChunk: the transitions are counted after the dedup.
ExpandChunkCountedAfterDedup(chunk) ==
  [generated_transitions |-> Len(SortDedup(ChunkSuccessors(chunk))),
   states |-> SortDedup(ChunkSuccessors(chunk))]

\* The closure of par_chunks().map in the deterministic mode: one chunk.
ExpandChunk(chunk) ==
  [generated_transitions |-> Len(ChunkSuccessors(chunk)),
   states |-> SortDedup(ChunkSuccessors(chunk))]

\* batch.len().div_ceil(workers).max(1)
chunk_size(len, workers) == Max((len + workers - 1) \div workers, 1)

\* slice.par_chunks(size): consecutive chunks of `size` items, the last one shorter.
RECURSIVE par_chunks(_, _)
par_chunks(batch, size) ==
  IF batch = <<>> THEN <<>>
  ELSE IF Len(batch) <= size THEN <<batch>>
  ELSE <<SubSeq(batch, 1, size)>> \o par_chunks(SubSeq(batch, size + 1, Len(batch)), size)

\* The items of one level: the states (par_iter) or the chunks (par_chunks).
LevelTasks(mode, frontier, workers) ==
  IF mode = "deterministic"
  THEN par_chunks(frontier, chunk_size(Len(frontier), workers))
  ELSE [i \in 1 .. Len(frontier) |-> <<frontier[i]>>]

ExpandTask(mode, task) ==
  IF mode = "deterministic" THEN ExpandChunk(task) ELSE ExpandState(Head(task))

RECURSIVE BatchTransitions(_)
BatchTransitions(batches) ==
  IF batches = <<>> THEN 0
  ELSE Head(batches).generated_transitions + BatchTransitions(Tail(batches))

RECURSIVE BatchStates(_)
BatchStates(batches) ==
  IF batches = <<>> THEN <<>>
  ELSE Head(batches).states \o BatchStates(Tail(batches))

\* The states the calling thread inserts for a level, in insertion order.
LevelCandidates(mode, batches) ==
  IF mode = "deterministic" THEN SortDedup(BatchStates(batches)) ELSE BatchStates(batches)

Running == {i \in 1 .. Len(eTaskState) : eTaskState[i] = "running"}
Unfinished == {i \in 1 .. Len(eTaskState) : eTaskState[i] # "done"}

\* Mutant of LevelJoined: the calling thread goes on once every item was taken.
LevelJoinedWhenTaken == \A i \in 1 .. Len(eTaskState) : eTaskState[i] # "pending"

\* pool.install(.. collect ..) returns when every item of the level is done.
LevelJoined == Unfinished = {}

\* Mutant of InsertCall: a state is counted whether or not it was new.
InsertCallCountingAll(state, st) ==
  [store |-> st.store \cup {state},
   log |-> Append(st.log, [state |-> state, thread |-> "main",
                           running |-> Cardinality(Running),
                           unfinished |-> Cardinality(Unfinished)]),
   pushed |-> IF state \in st.store THEN st.pushed ELSE Append(st.pushed, state),
   states |-> st.states + 1]

\* One store.insert call by the calling thread: the store, the log, the
\* frontier under construction and the state count after it.
InsertCall(state, st) ==
  [store |-> st.store \cup {state},
   log |-> Append(st.log, [state |-> state, thread |-> "main",
                           running |-> Cardinality(Running),
                           unfinished |-> Cardinality(Unfinished)]),
   pushed |-> IF state \in st.store THEN st.pushed ELSE Append(st.pushed, state),
   states |-> IF state \in st.store THEN st.states ELSE st.states + 1]

RECURSIVE InsertAll(_, _)
InsertAll(seq, st) ==
  IF seq = <<>> THEN st ELSE InsertAll(Tail(seq), InsertCall(Head(seq), st))

InitExploreIdle ==
  /\ eStore = {}
  /\ eInsertLog = <<>>
  /\ eExpanded = [s \in States |-> 0]
  /\ eFrontier = <<>>
  /\ ePc = "init"
  /\ eTasks = <<>>
  /\ eTaskState = <<>>
  /\ eBatches = <<>>
  /\ eCandidates = <<>>
  /\ eNextFrontier = <<>>
  /\ eStats = [states |-> 0, transitions |-> 0]

\* The lists of at most MaxEdges (from, to) pairs, grouped by ascending source.
EdgeLists ==
  {es \in SeqsUpTo(States \X States, MaxEdges) :
     \A i \in 1 .. Len(es) - 1 : es[i][1] <= es[i + 1][1]}

\* The inputs: a provider all of whose transitions leave reachable states, an
\* entry point, and an empty store.
InitExplore ==
  /\ eInitial \in States
  /\ eProvider \in {p \in {ProviderOf(es) : es \in EdgeLists} :
                      \A s \in States : p[s] # <<>> => s \in Reach(p, {eInitial})}
  /\ eMode \in {"serial", "parallel", "deterministic"}
  /\ eWorkers \in 1 .. MaxWorkers
  /\ eMode = "serial" => eWorkers = 1
  /\ InitExploreIdle

\* The insert of the initial state and the set-up of the queue or frontier.
ExploreStart ==
  /\ ePc = "init"
  /\ LET Store(st) ==
           /\ eStore' = st.store
           /\ eInsertLog' = st.log
           /\ eFrontier' = st.pushed
           /\ eStats' = [eStats EXCEPT !.states = st.states]
     IN Store(InsertCall(eInitial, [store |-> eStore, log |-> eInsertLog,
                                    pushed |-> <<>>, states |-> eStats.states]))
  /\ ePc' = "loop"
  /\ UNCHANGED <<eProvider, eInitial, eMode, eWorkers, eExpanded, eTasks, eTaskState, eBatches,
                 eCandidates, eNextFrontier>>

\* explore_serial_internal: one iteration of `while let Some(state) = queue.pop()`.
SerialStep ==
  /\ eMode = "serial"
  /\ ePc = "loop"
  /\ eFrontier # <<>>
  /\ LET Store(st) ==
           /\ eStore' = st.store
           /\ eInsertLog' = st.log
           /\ eFrontier' = st.pushed
           /\ eStats' = [states |-> st.states,
                         transitions |-> eStats.transitions + Len(eProvider[Head(eFrontier)])]
     IN Store(InsertAll(eProvider[Head(eFrontier)],
                        [store |-> eStore, log |-> eInsertLog,
                         pushed |-> Tail(eFrontier), states |-> eStats.states]))
  /\ eExpanded' = [eExpanded EXCEPT ![Head(eFrontier)] = @ + 1]
  /\ UNCHANGED <<eProvider, eInitial, eMode, eWorkers, ePc, eTasks, eTaskState, eBatches,
                 eCandidates, eNextFrontier>>

\* The exit of the loop of any of the three explorers: Ok(Stats).
ExploreReturn ==
  /\ ePc = "loop"
  /\ eFrontier = <<>>
  /\ ePc' = "done"
  /\ UNCHANGED <<eProvider, eInitial, eMode, eWorkers, eStore, eInsertLog, eExpanded, eFrontier,
                 eTasks, eTaskState, eBatches, eCandidates, eNextFrontier, eStats>>

\* A parallel level starts: the frontier is handed to the pool.
Dispatch ==
  /\ eMode # "serial"
  /\ ePc = "loop"
  /\ eFrontier # <<>>
  /\ eTasks' = LevelTasks(eMode, eFrontier, eWorkers)
  /\ eTaskState' = [i \in 1 .. Len(LevelTasks(eMode, eFrontier, eWorkers)) |-> "pending"]
  /\ eBatches' = [i \in 1 .. Len(LevelTasks(eMode, eFrontier, eWorkers)) |-> EmptyBatch]
  /\ ePc' = "join"
  /\ UNCHANGED <<eProvider, eInitial, eMode, eWorkers, eStore, eInsertLog, eExpanded, eFrontier,
                 eCandidates, eNextFrontier, eStats>>

\* A free worker thread takes an item of the level.
WorkerTake(i) ==
  /\ eTaskState[i] = "pending"
  /\ Cardinality(Running) < eWorkers
  /\ eTaskState' = [eTaskState EXCEPT ![i] = "running"]
  /\ UNCHANGED <<eProvider, eInitial, eMode, eWorkers, eStore, eInsertLog, eExpanded, eFrontier, ePc,
                 eTasks, eBatches, eCandidates, eNextFrontier, eStats>>

\* The worker returns the batch of its item.
WorkerFinish(i) ==
  /\ eTaskState[i] = "running"
  /\ eTaskState' = [eTaskState EXCEPT ![i] = "done"]
  /\ eBatches' = [eBatches EXCEPT ![i] = ExpandTask(eMode, eTasks[i])]
  /\ eExpanded' = [s \in States |->
                     eExpanded[s] + Cardinality({k \in 1 .. Len(eTasks[i]) : eTasks[i][k] = s})]
  /\ UNCHANGED <<eProvider, eInitial, eMode, eWorkers, eStore, eInsertLog, eFrontier, ePc,
                 eTasks, eCandidates, eNextFrontier, eStats>>

\* The calling thread, back from the pool: the transitions of the level are
\* added up and the candidates put in insertion order.
Collect ==
  /\ ePc = "join"
  /\ LevelJoined
  /\ eStats' = [eStats EXCEPT !.transitions = @ + BatchTransitions(eBatches)]
  /\ eCandidates' = LevelCandidates(eMode, eBatches)
  /\ eNextFrontier' = <<>>
  /\ ePc' = "insert"
  /\ UNCHANGED <<eProvider, eInitial, eMode, eWorkers, eStore, eInsertLog, eExpanded, eFrontier,
                 eTasks, eTaskState, eBatches>>

\* One iteration of the insert loop of the calling thread.
MainInsert ==
  /\ ePc = "insert"
  /\ eCandidates # <<>>
  /\ LET Store(st) ==
           /\ eStore' = st.store
           /\ eInsertLog' = st.log
           /\ eNextFrontier' = st.pushed
           /\ eStats' = [eStats EXCEPT !.states = st.states]
     IN Store(InsertCall(Head(eCandidates), [store |-> eStore, log |-> eInsertLog,
                                             pushed |-> eNextFrontier,
                                             states |-> eStats.states]))
  /\ eCandidates' = Tail(eCandidates)
  /\ UNCHANGED <<eProvider, eInitial, eMode, eWorkers, eExpanded, eFrontier, ePc, eTasks, eTaskState,
                 eBatches>>

\* frontier = next_frontier
EndLevel ==
  /\ ePc = "insert"
  /\ eCandidates = <<>>
  /\ eFrontier' = eNextFrontier
  /\ ePc' = "loop"
  /\ UNCHANGED <<eProvider, eInitial, eMode, eWorkers, eStore, eInsertLog, eExpanded, eTasks,
                 eTaskState, eBatches, eCandidates, eNextFrontier, eStats>>

----------------------------------------------------------------------------
(* The disk state store (disk_store.rs) with the one-byte codec of its      *)
(* tests.  A file is the sequence of its characters; two processes share    *)
(* one store path.                                                          *)

MaxDiskState == 1     \* the states stored are 0 .. MaxDiskState
MaxRetry == 1         \* lock_retry_count ranges over 0 .. MaxRetry
MaxFlush == 2         \* index_flush_every ranges over 0 .. MaxFlush

DiskStates == 0 .. MaxDiskState
Procs == {1, 2}

INDEX_MAGIC == "cspx-disk-index-v1"

NL == "\n"
CR == "\r"
None == "None"

HexDigits == <<"0", "1", "2", "3", "4", "5", "6", "7", "8", "9", "a", "b", "c", "d", "e", "f">>

\* hex::encode: two lower-case digits per byte.
RECURSIVE hex_encode(_)
hex_encode(bytes) ==
  IF bytes = <<>> THEN <<>>
  ELSE <<HexDigits[(Head(bytes) \div 16) + 1], HexDigits[(Head(bytes) % 16) + 1]>>
         \o hex_encode(Tail(bytes))

HexDigitsUpper == <<"0", "1", "2", "3", "4", "5", "6", "7", "8", "9", "A", "B", "C", "D", "E", "F">>

\* hex::decode takes the digits of either case.
IsHexDigit(c) == \E i \in 1 .. Len(HexDigits) : HexDigits[i] = c \/ HexDigitsUpper[i] = c

HexValue(c) == (CHOOSE i \in 1 .. Len(HexDigits) : HexDigits[i] = c \/ HexDigitsUpper[i] = c) - 1

\* hex::decode: an error for an odd length or a character that is no hex digit.
RECURSIVE hex_decode(_)
hex_decode(text) ==
  IF text = <<>> THEN [ok |-> TRUE, bytes |-> <<>>]
  ELSE IF Len(text) = 1 \/ ~IsHexDigit(text[1]) \/ ~IsHexDigit(text[2])
  THEN [ok |-> FALSE, bytes |-> <<>>]
  ELSE LET Prepend(rest) ==
             IF ~rest.ok THEN rest
             ELSE [ok |-> TRUE, bytes |-> <<16 * HexValue(text[1]) + HexValue(text[2])>> \o rest.bytes]
       IN Prepend(hex_decode(SubSeq(text, 3, Len(text))))

\* ByteCodec::encode: vec![*state]
encode(state) == <<state % 256>>

\* ByteCodec::decode: the byte of a one-byte record, an error otherwise.
decode(bytes) ==
  IF Len(bytes) = 1 THEN [ok |-> TRUE, state |-> bytes[1]] ELSE [ok |-> FALSE, state |-> 0]

\* decode_validated_record: the bytes of a line that is the hex of a
\* non-empty record the codec decodes.
decode_validated_record(line) ==
  LET Validate(decoded) ==
        IF ~decoded.ok THEN decoded
        ELSE IF decoded.bytes = <<>> THEN [ok |-> FALSE, bytes |-> <<>>]
        ELSE IF ~decode(decoded.bytes).ok THEN [ok |-> FALSE, bytes |-> <<>>]
        ELSE decoded
  IN Validate(hex_decode(line))

\* str::trim_end_matches('\r')
RECURSIVE trim_end_cr(_)
trim_end_cr(text) ==
  IF text # <<>> /\ text[Len(text)] = CR
  THEN trim_end_cr(SubSeq(text, 1, Len(text) - 1))
  ELSE text

\* The loop of rebuild_index_from_log over the bytes of the log: st holds
\* index, line_start, normalized_len and whether an invalid record was met.
RECURSIVE RebuildScan(_, _, _)
RebuildScan(data, cursor, st) ==
  IF cursor > Len(data) \/ st.invalid THEN st
  ELSE IF data[cursor] # NL THEN RebuildScan(data, cursor + 1, st)
  ELSE LET Line(text) ==
             IF text = <<>> THEN [st EXCEPT !.line_start = cursor, !.normalized_len = cursor]
             ELSE IF ~decode_validated_record(text).ok THEN [st EXCEPT !.invalid = TRUE]
             ELSE [st EXCEPT !.index = @ \cup {decode_validated_record(text).bytes},
                             !.line_start = cursor, !.normalized_len = cursor]
       IN RebuildScan(data, cursor + 1,
                      Line(trim_end_cr(SubSeq(data, st.line_start + 1, cursor - 1))))

\* Mutant of rebuild_index_from_log: an invalid record is dropped without an error.
rebuild_index_from_log_dropping_invalid(data) ==
  LET Finish(st) ==
        IF st.line_start < Len(data) /\ ~st.invalid
        THEN [error |-> None, index |-> st.index, log_len |-> st.normalized_len,
              log |-> SubSeq(data, 1, st.normalized_len)]
        ELSE [error |-> None, index |-> st.index, log_len |-> Len(data), log |-> data]
  IN Finish(RebuildScan(data, 1, [index |-> {}, line_start |-> 0, normalized_len |-> 0,
                                  invalid |-> FALSE]))

\* rebuild_index_from_log: the index, the normalized length and the log
\* after the truncation of an unterminated tail; InvalidData for a bad record.
rebuild_index_from_log(data) ==
  LET Finish(st) ==
        IF st.invalid THEN [error |-> "InvalidData", index |-> {}, log_len |-> 0, log |-> data]
        ELSE IF st.line_start < Len(data)
        THEN [error |-> None, index |-> st.index, log_len |-> st.normalized_len,
              log |-> SubSeq(data, 1, st.normalized_len)]
        ELSE [error |-> None, index |-> st.index, log_len |-> Len(data), log |-> data]
  IN Finish(RebuildScan(data, 1, [index |-> {}, line_start |-> 0, normalized_len |-> 0,
                                  invalid |-> FALSE]))

\* Lexicographic order of two lines of lower-case hex (String::cmp).
RECURSIVE LineLess(_, _)
LineLess(a, b) ==
  IF a = <<>> THEN TRUE
  ELSE IF b = <<>> THEN FALSE
  ELSE IF a[1] # b[1] THEN HexValue(a[1]) < HexValue(b[1])
  ELSE LineLess(Tail(a), Tail(b))

RECURSIVE SortLines(_)
SortLines(S) ==
  IF S = {} THEN <<>>
  ELSE LET Least(m) == <<m>> \o SortLines(S \ {m})
       IN Least(CHOOSE x \in S : \A y \in S : LineLess(x, y))

NoIndexFile == [exists |-> FALSE, header |-> [magic |-> "", log_len |-> 0], records |-> <<>>]

\* Mutant of write_index_file: the header alone, no record.
write_index_file_header_only(index, log_len) ==
  [exists |-> TRUE, header |-> [magic |-> INDEX_MAGIC, log_len |-> log_len], records |-> <<>>]

\* write_index_file: the header line and the sorted hex records, put in
\* place by a rename.
write_index_file(index, log_len) ==
  [exists |-> TRUE, header |-> [magic |-> INDEX_MAGIC, log_len |-> log_len],
   records |-> SortLines({hex_encode(bytes) : bytes \in index})]

\* parse_index_header
parse_index_header(header) ==
  IF header.magic = INDEX_MAGIC THEN [ok |-> TRUE, log_len |-> header.log_len]
  ELSE [ok |-> FALSE, log_len |-> 0]

\* The loop of load_index_from_file over the record lines.
RECURSIVE LoadRecords(_, _, _)
LoadRecords(records, i, index) ==
  IF i > Len(records) THEN [kind |-> "Some", index |-> index]
  ELSE IF records[i] = <<>> THEN LoadRecords(records, i + 1, index)
  ELSE IF ~decode_validated_record(records[i]).ok THEN [kind |-> "InvalidData", index |-> {}]
  ELSE LoadRecords(records, i + 1, index \cup {decode_validated_record(records[i]).bytes})

\* Mutant of load_index_from_file: the log length of the header is not compared.
load_index_from_file_any_length(idx, expected_log_len) ==
  IF ~idx.exists THEN [kind |-> None, index |-> {}]
  ELSE IF ~parse_index_header(idx.header).ok THEN [kind |-> None, index |-> {}]
  ELSE LoadRecords(idx.records, 1, {})

\* load_index_from_file: None when the side-car is missing, has no valid
\* header or names another log length; otherwise its records.
load_index_from_file(idx, expected_log_len) ==
  IF ~idx.exists THEN [kind |-> None, index |-> {}]
  ELSE IF ~parse_index_header(idx.header).ok THEN [kind |-> None, index |-> {}]
  ELSE IF parse_index_header(idx.header).log_len # expected_log_len THEN [kind |-> None, index |-> {}]
  ELSE LoadRecords(idx.records, 1, {})

Absent == [exists |-> FALSE, holder |-> 0, live |-> FALSE]
Unknown == [known |-> FALSE, states |-> {}, pending |-> 0]

\* DiskStateStoreOpenOptions, without the backoff duration.
OpenOptionsSet == [lock_retry_count : 0 .. MaxRetry, index_flush_every : 0 .. MaxFlush]

\* A process without a store: the fields of DiskStateStore and the locals of
\* open_with_options at their zero values.
ClosedStore ==
  [pc |-> "closed", lock_retry_count |-> 0, index_flush_every |-> 0,
   retries |-> 0, contention_events |-> 0,
   index |-> {}, pending_index_updates |-> 0, current_log_len |-> 0,
   metrics |-> [lock_retries |-> 0, lock_contention_events |-> 0]]

NoSession == [attempts |-> 0, failed |-> 0, held |-> {}]

NoEvent ==
  [op |-> "none", proc |-> 0, result |-> "none",
   options |-> [lock_retry_count |-> 0, index_flush_every |-> 0],
   attempts |-> 0, failed |-> 0, free |-> FALSE, locked |-> FALSE, stale |-> FALSE,
   partial |-> FALSE, modified |-> FALSE, expected |-> Unknown, atOpen |-> {}, complete |-> {},
   state |-> 0, returned |-> FALSE, known |-> FALSE,
   idx |-> NoIndexFile, log_len |-> 0, rebuilt |-> FALSE, invalid |-> FALSE]

\* The log ends with characters that no newline terminates.
PartialTail(log) == log # <<>> /\ log[Len(log)] # NL

\* The lock file exists and the process that created it is alive.
HeldLive(lock) == lock.exists /\ lock.live

\* The lock file exists and the process that created it was killed.
Stale(lock) == lock.exists /\ ~lock.live

\* The states of a set of records.
StatesOf(index) == {decode(bytes).state : bytes \in index}

\* Mutant of AcquireSucceeds: the lock file is created over an existing one.
AcquireSucceedsAlways(lock) == TRUE

\* LockGuard::acquire: create_new succeeds only if the lock file is absent.
AcquireSucceeds(lock) == ~lock.exists

\* Mutant of MayRetry: one retry more than lock_retry_count.
MayRetryInclusive(retries, lock_retry_count) == retries <= lock_retry_count

\* The guard of the retry arm of the lock loop.
MayRetry(retries, lock_retry_count) == retries < lock_retry_count

\* open_with_options once it holds the lock: the index is loaded from the
\* side-car, or rebuilt from the log (whose partial tail is cut) and written.
OpenFiles(log, idx) ==
  LET Rebuilt(r) ==
        IF r.error # None
        THEN [error |-> r.error, index |-> {}, current_log_len |-> 0, log |-> log, idx |-> idx,
              rebuilt |-> TRUE]
        ELSE [error |-> None, index |-> r.index, current_log_len |-> r.log_len, log |-> r.log,
              idx |-> write_index_file(r.index, r.log_len), rebuilt |-> TRUE]
      Loaded(l) ==
        IF l.kind = "InvalidData"
        THEN [error |-> "InvalidData", index |-> {}, current_log_len |-> 0, log |-> log, idx |-> idx,
              rebuilt |-> FALSE]
        ELSE IF l.kind # None
        THEN [error |-> None, index |-> l.index, current_log_len |-> Len(log), log |-> log, idx |-> idx,
              rebuilt |-> FALSE]
        ELSE Rebuilt(rebuild_index_from_log(log))
  IN Loaded(load_index_from_file(idx, Len(log)))

\* The complete lines of a log, by splitting at the newlines.
RECURSIVE CompleteLines(_, _)
CompleteLines(log, line) ==
  IF log = <<>> THEN {}
  ELSE IF Head(log) = NL THEN {line} \cup CompleteLines(Tail(log), <<>>)
  ELSE CompleteLines(Tail(log), Append(line, Head(log)))

\* The states whose record is a complete line of the log.
CompleteStates(log) == {s \in DiskStates : hex_encode(encode(s)) \in CompleteLines(log, <<>>)}

\* The log has a complete, non-empty line that is not the hex of a record
\* the codec decodes.
HasInvalidLine(log) ==
  \E line \in CompleteLines(log, <<>>) :
    trim_end_cr(line) # <<>> /\ ~decode_validated_record(trim_end_cr(line)).ok

InitDisk ==
  /\ dLog = <<>>
  /\ dIdx = NoIndexFile
  /\ dLock = Absent
  /\ dStore = [p \in Procs |-> ClosedStore]
  /\ dSession = [p \in Procs |-> NoSession]
  /\ dClosed = Unknown
  /\ dEvent = NoEvent

\* What an open_with_options call that returns in this step saw and returned.
OpenEvent(p, options, result) ==
  [NoEvent EXCEPT !.op = "open", !.proc = p, !.result = result, !.options = options,
                  !.locked = HeldLive(dLock), !.stale = Stale(dLock),
                  !.partial = PartialTail(dLog)]

\* DiskStateStore::open_with_options up to the lock loop: index_flush_every = 0
\* is rejected with InvalidInput before the lock file is looked at.
OpenCall(p, options) ==
  /\ dStore[p].pc = "closed"
  /\ UNCHANGED <<dLog, dIdx, dLock, dSession, dClosed>>
  /\ IF options.index_flush_every = 0
     THEN /\ dEvent' = [OpenEvent(p, options, "InvalidInput")
                          EXCEPT !.modified = (<<dLog', dIdx'>> # <<dLog, dIdx>>)]
          /\ UNCHANGED dStore
     ELSE /\ dEvent' = NoEvent
          /\ dStore' = [dStore EXCEPT ![p] =
               [ClosedStore EXCEPT !.pc = "opening",
                                   !.lock_retry_count = options.lock_retry_count,
                                   !.index_flush_every = options.index_flush_every]]

\* The options of the call a process is in.
OptionsOf(st) ==
  [lock_retry_count |-> st.lock_retry_count, index_flush_every |-> st.index_flush_every]

\* Mutant of Acquired: the lock file is left behind when the call fails.
AcquiredLockLeft(p, o) ==
  /\ dLog' = o.log
  /\ dIdx' = o.idx
  /\ dLock' = [exists |-> TRUE, holder |-> p, live |-> TRUE]
  /\ dStore' = [dStore EXCEPT ![p] =
       IF o.error # None THEN ClosedStore
       ELSE [@ EXCEPT !.pc = "open", !.lock_retry_count = 0,
                      !.retries = 0, !.contention_events = 0,
                      !.index = o.index, !.current_log_len = o.current_log_len,
                      !.pending_index_updates = 0,
                      !.metrics = [lock_retries |-> dStore[p].retries,
                                   lock_contention_events |-> dStore[p].contention_events]]]
  /\ dSession' = [dSession EXCEPT ![p] =
       IF o.error # None THEN NoSession ELSE [NoSession EXCEPT !.held = StatesOf(o.index)]]
  /\ dEvent' = [OpenEvent(p, OptionsOf(dStore[p]), IF o.error # None THEN o.error ELSE "Ok")
                  EXCEPT !.attempts = dSession[p].attempts + 1,
                         !.failed = dSession[p].failed,
                         !.free = TRUE,
                         !.modified = (<<dLog', dIdx'>> # <<dLog, dIdx>>),
                         !.expected = dClosed,
                         !.atOpen = StatesOf(o.index),
                         !.complete = CompleteStates(dLog),
                         !.idx = dIdx,
                         !.log_len = Len(dLog),
                         !.rebuilt = o.rebuilt,
                         !.invalid = HasInvalidLine(dLog)]
  /\ UNCHANGED dClosed

\* The lock loop found the lock file absent: the rest of open_with_options.
Acquired(p, o) ==
  /\ dLog' = o.log
  /\ dIdx' = o.idx
  /\ dLock' = IF o.error # None THEN Absent ELSE [exists |-> TRUE, holder |-> p, live |-> TRUE]
  /\ dStore' = [dStore EXCEPT ![p] =
       IF o.error # None THEN ClosedStore
       ELSE [@ EXCEPT !.pc = "open", !.lock_retry_count = 0,
                      !.retries = 0, !.contention_events = 0,
                      !.index = o.index, !.current_log_len = o.current_log_len,
                      !.pending_index_updates = 0,
                      !.metrics = [lock_retries |-> dStore[p].retries,
                                   lock_contention_events |-> dStore[p].contention_events]]]
  /\ dSession' = [dSession EXCEPT ![p] =
       IF o.error # None THEN NoSession ELSE [NoSession EXCEPT !.held = StatesOf(o.index)]]
  /\ dEvent' = [OpenEvent(p, OptionsOf(dStore[p]), IF o.error # None THEN o.error ELSE "Ok")
                  EXCEPT !.attempts = dSession[p].attempts + 1,
                         !.failed = dSession[p].failed,
                         !.free = TRUE,
                         !.modified = (<<dLog', dIdx'>> # <<dLog, dIdx>>),
                         !.expected = dClosed,
                         !.atOpen = StatesOf(o.index),
                         !.complete = CompleteStates(dLog),
                         !.idx = dIdx,
                         !.log_len = Len(dLog),
                         !.rebuilt = o.rebuilt,
                         !.invalid = HasInvalidLine(dLog)]
  /\ UNCHANGED dClosed

\* The lock loop met the lock file: one more retry, or Err(WouldBlock).
Contended(p) ==
  /\ UNCHANGED <<dLog, dIdx, dLock, dClosed>>
  /\ IF MayRetry(dStore[p].retries, dStore[p].lock_retry_count)
     THEN /\ dStore' = [dStore EXCEPT ![p].retries = @ + 1, ![p].contention_events = @ + 1]
          /\ dSession' = [dSession EXCEPT ![p].attempts = @ + 1, ![p].failed = @ + 1]
          /\ dEvent' = NoEvent
     ELSE /\ dStore' = [dStore EXCEPT ![p] = ClosedStore]
          /\ dSession' = [dSession EXCEPT ![p] = NoSession]
          /\ dEvent' = [OpenEvent(p, OptionsOf(dStore[p]), "WouldBlock")
                          EXCEPT !.attempts = dSession[p].attempts + 1,
                                 !.failed = dSession[p].failed + 1,
                                 !.modified = (<<dLog', dIdx'>> # <<dLog, dIdx>>)]

\* One turn of the lock loop of open_with_options, and when the lock is
\* acquired the rest of the call.
LockAttempt(p) ==
  /\ dStore[p].pc = "opening"
  /\ IF AcquireSucceeds(dLock) THEN Acquired(p, OpenFiles(dLog, dIdx)) ELSE Contended(p)

\* append_log_record: the hex of the record and a newline.
LogRecord(bytes) == hex_encode(bytes) \o <<NL>>

\* What an insert call that returns in this step returned.
InsertEvent(p, state, returned) ==
  [NoEvent EXCEPT !.op = "insert", !.proc = p, !.state = state, !.returned = returned,
                  !.known = (state \in dSession[p].held)]

\* DiskStateStore::insert of a state that is not in the index: the record is
\* appended, the index updated and, every index_flush_every inserts, flushed.
InsertNew(p, state, log) ==
  LET Flushed(st) ==
        IF st.pending_index_updates >= st.index_flush_every
        THEN /\ dIdx' = write_index_file(st.index, st.current_log_len)
             /\ dStore' = [dStore EXCEPT ![p] = [st EXCEPT !.pending_index_updates = 0]]
        ELSE /\ dIdx' = dIdx
             /\ dStore' = [dStore EXCEPT ![p] = st]
  IN /\ dLog' = log
     /\ Flushed([dStore[p] EXCEPT !.index = @ \cup {encode(state)},
                                  !.current_log_len = Len(log),
                                  !.pending_index_updates = @ + 1])
     /\ dSession' = [dSession EXCEPT ![p].held = @ \cup {state}]
     /\ dEvent' = InsertEvent(p, state, TRUE)

\* DiskStateStore::insert
Insert(p, state) ==
  /\ dStore[p].pc = "open"
  /\ IF encode(state) \in dStore[p].index
     THEN /\ dEvent' = InsertEvent(p, state, FALSE)
          /\ UNCHANGED <<dLog, dIdx, dStore, dSession>>
     ELSE InsertNew(p, state, dLog \o LogRecord(encode(state)))
  /\ UNCHANGED <<dLock, dClosed>>

\* The process that holds the store is killed: between two calls (written = 0)
\* or inside append_log_record, after `written` characters of the record of a
\* new state reached the log.  Nothing is dropped: the lock file stays.
Killed(p, state, written) ==
  /\ dStore[p].pc = "open"
  /\ written > 0 => encode(state) \notin dStore[p].index
  /\ written = 0 => state = 0
  /\ dLog' = dLog \o SubSeq(LogRecord(encode(state)), 1, written)
  /\ dLock' = [dLock EXCEPT !.live = FALSE]
  /\ dStore' = [dStore EXCEPT ![p] = ClosedStore]
  /\ dSession' = [dSession EXCEPT ![p] = NoSession]
  /\ dClosed' = Unknown
  /\ dEvent' = NoEvent
  /\ UNCHANGED dIdx

\* flush_index_snapshot as run by Drop for DiskStateStore.
flush_index_snapshot(st, idx) ==
  IF st.pending_index_updates = 0 THEN idx
  ELSE write_index_file(st.index, st.current_log_len)

\* The store is dropped: the index is flushed, then the LockGuard removes the
\* lock file.
Drop(p) ==
  /\ dStore[p].pc = "open"
  /\ dIdx' = flush_index_snapshot(dStore[p], dIdx)
  /\ dLock' = Absent
  /\ dClosed' = [known |-> TRUE, states |-> dSession[p].held,
                  pending |-> dStore[p].pending_index_updates]
  /\ dStore' = [dStore EXCEPT ![p] = ClosedStore]
  /\ dSession' = [dSession EXCEPT ![p] = NoSession]
  /\ dEvent' = NoEvent
  /\ UNCHANGED dLog

\* The lock file left by a killed process is removed by hand.
RemoveStaleLock ==
  /\ Stale(dLock)
  /\ dLock' = Absent
  /\ dEvent' = NoEvent
  /\ UNCHANGED <<dLog, dIdx, dStore, dSession, dClosed>>

(* Writes to the files of a closed store by something other than the store, *)
(* as the tests of the store make them.                                      *)

\* A line that is not hex.
InvalidLine == <<"z", "z">>

\* fs::write(idx, "broken-index\nzz\n")
BrokenIndex ==
  [exists |-> TRUE, header |-> [magic |-> "broken-index", log_len |-> 0],
   records |-> <<InvalidLine>>]

\* fs::remove_file(idx)
RemoveIndex ==
  /\ ~dLock.exists
  /\ dIdx.exists
  /\ dIdx' = NoIndexFile
  /\ dEvent' = NoEvent
  /\ UNCHANGED <<dLog, dLock, dStore, dSession, dClosed>>

\* The side-car is overwritten with text that has no valid header.
BreakIndex ==
  /\ ~dLock.exists
  /\ dIdx # BrokenIndex
  /\ dIdx' = BrokenIndex
  /\ dEvent' = NoEvent
  /\ UNCHANGED <<dLog, dLock, dStore, dSession, dClosed>>

\* A complete line that is not hex is appended to the log.
AppendInvalidLine ==
  /\ ~dLock.exists
  /\ ~HasInvalidLine(dLog)
  /\ dLog' = dLog \o InvalidLine \o <<NL>>
  /\ dEvent' = NoEvent
  /\ UNCHANGED <<dIdx, dLock, dStore, dSession, dClosed>>

\* A line that is not hex is appended to a side-car with a valid header.
AppendInvalidIndexRecord ==
  /\ ~dLock.exists
  /\ dIdx.exists
  /\ parse_index_header(dIdx.header).ok
  /\ InvalidLine \notin Range(dIdx.records)
  /\ dIdx' = [dIdx EXCEPT !.records = Append(@, InvalidLine)]
  /\ dEvent' = NoEvent
  /\ UNCHANGED <<dLog, dLock, dStore, dSession, dClosed>>

\* The last record of the log is overwritten in place by a line of the same
\* length that is not hex; the size of the log stays.
OverwriteRecord ==
  /\ ~dLock.exists
  /\ ~HasInvalidLine(dLog)
  /\ Len(dLog) >= Len(InvalidLine) + 1
  /\ ~PartialTail(dLog)
  /\ dLog' = SubSeq(dLog, 1, Len(dLog) - Len(InvalidLine) - 1) \o InvalidLine \o <<NL>>
  /\ dEvent' = NoEvent
  /\ UNCHANGED <<dIdx, dLock, dStore, dSession, dClosed>>

----------------------------------------------------------------------------
(* The hybrid store (store_hybrid.rs): a set in memory and, past            *)
(* spill_threshold, a disk store at the spill path.  One process; the files *)
(* of the spill path may be there before the store is opened, and may be    *)
(* made read-only while it is open.                                          *)

MaxHybridState == 2   \* the states inserted are 0 .. MaxHybridState
MaxThreshold == 1     \* spill_threshold ranges over 0 .. MaxThreshold

HybridStates == 0 .. MaxHybridState

\* The log files that may lie at the spill path before the store is opened:
\* none, text without a newline, a log with the record of one state.
NoLogFile == [exists |-> FALSE, data |-> <<>>]
ExistingLogs ==
  {NoLogFile, [exists |-> TRUE, data |-> <<"z">>]}
    \cup {[exists |-> TRUE, data |-> hex_encode(encode(s)) \o <<NL>>] : s \in HybridStates}

\* Option<DiskStateStore>::None
NoSpill == [ClosedStore EXCEPT !.pc = "none"]

NoHybridEvent ==
  [op |-> "none", state |-> 0, result |-> "none", returned |-> FALSE,
   len_before |-> 0, len_after |-> 0, existing |-> FALSE, had_spill |-> FALSE,
   failed_before |-> FALSE, acked_before |-> FALSE]

\* DiskStateStore::insert on the values of a store and its two files; the
\* append fails when the log cannot be opened for writing.
disk_insert(st, log, idx, state, writable) ==
  LET Flushed(s2, data) ==
        IF s2.pending_index_updates >= s2.index_flush_every
        THEN [error |-> None, returned |-> TRUE, log |-> data,
              store |-> [s2 EXCEPT !.pending_index_updates = 0],
              idx |-> write_index_file(s2.index, s2.current_log_len)]
        ELSE [error |-> None, returned |-> TRUE, log |-> data, store |-> s2, idx |-> idx]
      Appended(data) ==
        Flushed([st EXCEPT !.index = @ \cup {encode(state)},
                           !.current_log_len = Len(data),
                           !.pending_index_updates = @ + 1], data)
  IN IF encode(state) \in st.index
     THEN [error |-> None, returned |-> FALSE, log |-> log, store |-> st, idx |-> idx]
     ELSE IF ~writable
     THEN [error |-> "PermissionDenied", returned |-> FALSE, log |-> log, store |-> st, idx |-> idx]
     ELSE Appended(log \o LogRecord(encode(state)))

\* DiskStateStore::open_with_options on the values of the files, for a lock
\* file nobody else touches in the meantime.
disk_open(log, idx, lock, options, writable) ==
  LET Opened(o) ==
        [error |-> o.error, log |-> o.log, idx |-> o.idx,
         store |-> IF o.error # None THEN NoSpill
                   ELSE [ClosedStore EXCEPT !.pc = "open",
                                            !.index_flush_every = options.index_flush_every,
                                            !.index = o.index,
                                            !.current_log_len = o.current_log_len]]
      Failed(kind) == [error |-> kind, log |-> log, idx |-> idx, store |-> NoSpill]
  IN IF options.index_flush_every = 0 THEN Failed("InvalidInput")
     ELSE IF lock THEN Failed("WouldBlock")
     ELSE IF ~writable THEN Failed("PermissionDenied")
     ELSE Opened(OpenFiles(log, idx))

\* The loop of activate_spill_if_needed over the states in memory, in the
\* order the HashSet gives them.
RECURSIVE CopyAll(_, _, _)
CopyAll(r, order, writable) ==
  IF order = <<>> \/ r.error # None THEN r
  ELSE CopyAll(disk_insert(r.store, r.log, r.idx, Head(order), writable), Tail(order), writable)

\* The orders in which a HashSet may iterate over its members.
Orders(S) == {o \in [1 .. Cardinality(S) -> S] : \A i, j \in 1 .. Cardinality(S) : i # j => o[i] # o[j]}

\* activate_spill_if_needed: nothing to do, or the disk store is opened at
\* the spill path and every state in memory inserted.
activate_spill_if_needed(spill, mem, threshold, log, idx, lock, options, writable, order) ==
  IF spill.pc = "open" \/ Cardinality(mem) <= threshold
  THEN [error |-> None, returned |-> FALSE, log |-> log, idx |-> idx, store |-> spill]
  ELSE LET Copied(r) ==
             IF r.error # None
             THEN [error |-> r.error, returned |-> FALSE, log |-> r.log, idx |-> r.idx, store |-> NoSpill]
             ELSE r
           Opened(o) ==
             IF o.error # None
             THEN [error |-> o.error, returned |-> FALSE, log |-> o.log, idx |-> o.idx, store |-> NoSpill]
             ELSE Copied(CopyAll([error |-> None, returned |-> FALSE, log |-> o.log, idx |-> o.idx,
                                  store |-> o.store], order, writable))
       IN Opened(disk_open(log, idx, lock, options, writable))

\* HybridStateStore::insert on the values of the store and its files.
hybrid_insert(mem, spill, threshold, log, idx, lock, options, writable, state, order) ==
  LET Result(r, result, returned) ==
        [result |-> result, returned |-> returned, mem |-> mem \cup {state},
         store |-> r.store, log |-> r.log, idx |-> r.idx]
      Mirrored(r) ==
        IF r.error # None THEN Result(r, r.error, FALSE) ELSE Result(r, "Ok", TRUE)
      Activated(a, should_spill, had_spill) ==
        IF a.error # None THEN Result(a, a.error, FALSE)
        ELSE IF should_spill /\ had_spill
        THEN Mirrored(disk_insert(a.store, a.log, a.idx, state, writable))
        ELSE Result(a, "Ok", TRUE)
  IN IF state \in mem
     THEN [result |-> "Ok", returned |-> FALSE, mem |-> mem, store |-> spill, log |-> log, idx |-> idx]
     ELSE Activated(activate_spill_if_needed(spill, mem \cup {state}, threshold, log, idx, lock,
                                             options, writable, order),
                    Cardinality(mem \cup {state}) > threshold,
                    spill.pc = "open")

InitHybridIdle ==
  /\ hPc = "unopened"
  /\ hMem = {}
  /\ hSpill = NoSpill
  /\ hIdx = NoIndexFile
  /\ hLock = FALSE
  /\ hWritable = TRUE
  /\ hAcked = {}
  /\ hFailed = {}
  /\ hEvent = NoHybridEvent

InitHybrid ==
  /\ hOptions \in [spill_threshold : 0 .. MaxThreshold, index_flush_every : 0 .. MaxFlush]
  /\ hLog \in ExistingLogs
  /\ hExisting = hLog.exists
  /\ InitHybridIdle

\* HybridStateStore::open
HybridOpen ==
  /\ hPc = "unopened"
  /\ IF hOptions.spill_threshold = 0
     THEN /\ hEvent' = [NoHybridEvent EXCEPT !.op = "open", !.result = "InvalidInput",
                                             !.existing = hLog.exists]
          /\ hPc' = "failed"
     ELSE /\ hEvent' = [NoHybridEvent EXCEPT !.op = "open", !.result = "Ok",
                                             !.existing = hLog.exists]
          /\ hPc' = "open"
  /\ UNCHANGED <<hOptions, hMem, hSpill, hLog, hIdx, hLock, hWritable, hAcked, hFailed, hExisting>>

\* What an insert call did to the store and the files.
HybridInserted(state, r) ==
  /\ hMem' = r.mem
  /\ hSpill' = r.store
  /\ hLog' = IF r.store.pc = "open" THEN [exists |-> TRUE, data |-> r.log] ELSE hLog
  /\ hIdx' = r.idx
  /\ hLock' = (r.store.pc = "open")
  /\ hAcked' = IF r.result = "Ok" /\ r.returned THEN hAcked \cup {state} ELSE hAcked
  /\ hFailed' = IF r.result # "Ok" THEN hFailed \cup {state} ELSE hFailed
  /\ hEvent' = [NoHybridEvent EXCEPT !.op = "insert", !.state = state, !.result = r.result,
                                     !.returned = r.returned,
                                     !.len_before = Cardinality(hMem),
                                     !.len_after = Cardinality(r.mem),
                                     !.had_spill = (hSpill.pc = "open"),
                                     !.failed_before = (state \in hFailed),
                                     !.acked_before = (state \in hAcked)]
  /\ UNCHANGED <<hPc, hOptions, hWritable, hExisting>>

\* HybridStateStore::insert
HybridInsert(state, order) ==
  /\ hPc = "open"
  /\ HybridInserted(state,
       hybrid_insert(hMem, hSpill, hOptions.spill_threshold, hLog.data, hIdx, hLock,
                     [lock_retry_count |-> 0, index_flush_every |-> hOptions.index_flush_every],
                     hWritable, state, order))

\* The log and the side-car of the spill store are made read-only.
SetReadonly ==
  /\ hSpill.pc = "open"
  /\ hWritable
  /\ hWritable' = FALSE
  /\ hEvent' = NoHybridEvent
  /\ UNCHANGED <<hPc, hOptions, hMem, hSpill, hLog, hIdx, hLock, hAcked, hFailed, hExisting>>

\* The log and the side-car are made writable again.
SetWritable ==
  /\ ~hWritable
  /\ hWritable' = TRUE
  /\ hEvent' = NoHybridEvent
  /\ UNCHANGED <<hPc, hOptions, hMem, hSpill, hLog, hIdx, hLock, hAcked, hFailed, hExisting>>

\* The hybrid store is dropped, and with it the spill store.
HybridDrop ==
  /\ hPc = "open"
  /\ hPc' = "dropped"
  /\ hIdx' = IF hSpill.pc = "open" /\ hWritable THEN flush_index_snapshot(hSpill, hIdx) ELSE hIdx
  /\ hLock' = FALSE
  /\ hSpill' = NoSpill
  /\ hEvent' = NoHybridEvent
  /\ UNCHANGED <<hOptions, hMem, hLog, hWritable, hAcked, hFailed, hExisting>>

----------------------------------------------------------------------------
(* TraceHeuristicMinimizer::minimize_with_oracle against an arbitrary       *)
(* deterministic oracle, one oracle call per step.                          *)

MaxEvents == 3   \* the counterexamples handed to the minimizer have 0 .. MaxEvents events

EventLabels == {"a", "b"}

EventSeqs == UNION {[1 .. n -> EventLabels] : n \in 0 .. MaxEvents}

\* CounterexampleType has the single variant Trace.
CounterexampleTypes == {"Trace"}

\* The counterexamples a caller can hand in: any events, either value of the
\* flag, the tags and spans of the tests.
Counterexamples ==
  [kind : CounterexampleTypes, events : EventSeqs, is_minimized : BOOLEAN,
   tags : {<<"refinement">>}, source_spans : {<<"spec.cspm">>}]

NoCounterexample ==
  [kind |-> "Trace", events |-> <<>>, is_minimized |-> FALSE, tags |-> <<>>, source_spans |-> <<>>]

\* The oracle is known by the answers it has given: the event sequences it
\* accepted and those it rejected.
NoAnswers == [yes |-> {}, no |-> {}]

\* preserves_failure(&counterexample): a deterministic function of the events
\* of its argument. A sequence asked before gets the answer given then, a new
\* one gets `answer`.
preserves_failure(oracle, events, answer) ==
  IF events \in oracle.yes THEN TRUE
  ELSE IF events \in oracle.no THEN FALSE
  ELSE answer

\* The answers known after preserves_failure was called on `events`.
Answered(oracle, events, answer) ==
  IF preserves_failure(oracle, events, answer)
  THEN [oracle EXCEPT !.yes = @ \cup {events}]
  ELSE [oracle EXCEPT !.no = @ \cup {events}]

\* An early return that leaves the flag as the caller set it.
UnminimizedKeepingFlag(counterexample) == counterexample

\* counterexample.is_minimized = false; return counterexample
Unminimized(counterexample) == [counterexample EXCEPT !.is_minimized = FALSE]

\* best.is_minimized = true; best
MinimizedBest(best) == [best EXCEPT !.is_minimized = TRUE]

\* A for loop that stops before the last event.
ScanRangeWithoutLast(best) == 0 .. Len(best.events) - 2

\* for idx in 0..best.events.len()
ScanRange(best) == 0 .. Len(best.events) - 1

\* candidate = best.clone(); candidate.events.remove(idx)
Candidate(best, idx) == [best EXCEPT !.events = RemoveAt(@, idx + 1)]

\* A single pass: the scan goes on at the same index, without a restart.
IndexAfterAcceptNoRestart(idx) == idx

\* The index scanned after the candidate at idx was accepted: `break` leaves
\* the for loop, `reduced` makes the outer loop run it again from 0.
IndexAfterAccept(idx) == 0

InitMinimizeIdle ==
  /\ mPc = "idle"
  /\ mBest = NoCounterexample
  /\ mIdx = 0
  /\ mOracle = NoAnswers
  /\ mTried = {}
  /\ mRun = 1
  /\ mFirst = NoCounterexample
  /\ mOut = NoCounterexample

InitMinimize ==
  /\ mCx \in Counterexamples
  /\ InitMinimizeIdle

InitMinimizeUnused ==
  /\ mCx = NoCounterexample
  /\ InitMinimizeIdle

\* minimize_with_oracle up to the loop: the two early returns.
MinimizeStart(answer) ==
  /\ mPc = "idle"
  /\ IF mCx.kind # "Trace"
     THEN /\ mOut' = Unminimized(mCx)
          /\ mPc' = "done"
          /\ UNCHANGED <<mBest, mOracle>>
     ELSE /\ mOracle' = Answered(mOracle, mCx.events, answer)
          /\ IF ~preserves_failure(mOracle, mCx.events, answer)
             THEN /\ mOut' = Unminimized(mCx)
                  /\ mPc' = "done"
                  /\ UNCHANGED mBest
             ELSE /\ mBest' = mCx
                  /\ mPc' = "scan"
                  /\ UNCHANGED mOut
  /\ mIdx' = 0
  /\ UNCHANGED <<mCx, mTried, mRun, mFirst>>

\* One iteration of the for loop: the candidate without event idx is handed
\* to the oracle and replaces best when accepted.
TryDelete(answer) ==
  /\ mPc = "scan"
  /\ mIdx \in ScanRange(mBest)
  /\ mTried' = mTried \cup {Candidate(mBest, mIdx).events}
  /\ mOracle' = Answered(mOracle, Candidate(mBest, mIdx).events, answer)
  /\ IF ~preserves_failure(mOracle, Candidate(mBest, mIdx).events, answer)
     THEN /\ mIdx' = mIdx + 1
          /\ UNCHANGED mBest
     ELSE /\ mBest' = Candidate(mBest, mIdx)
          /\ mIdx' = IndexAfterAccept(mIdx)
  /\ UNCHANGED <<mCx, mPc, mRun, mFirst, mOut>>

\* The for loop ended with reduced = false: the outer loop breaks.
MinimizeReturn ==
  /\ mPc = "scan"
  /\ mIdx \notin ScanRange(mBest)
  /\ mOut' = MinimizedBest(mBest)
  /\ mPc' = "done"
  /\ UNCHANGED <<mCx, mBest, mIdx, mOracle, mTried, mRun, mFirst>>

\* The caller hands the output to the minimizer again, with the same oracle.
MinimizeAgain ==
  /\ mPc = "done"
  /\ mRun = 1
  /\ mFirst' = mOut
  /\ mCx' = mOut
  /\ mRun' = 2
  /\ mPc' = "idle"
  /\ mBest' = NoCounterexample
  /\ mIdx' = 0
  /\ mTried' = {}
  /\ mOut' = NoCounterexample
  /\ UNCHANGED mOracle

----------------------------------------------------------------------------
(* The status of a run: aggregate_status and exit_code_for_status.          *)

MaxChecks == 3   \* a run has 0 .. MaxChecks checks

Statuses == {"Pass", "Fail", "Unsupported", "Timeout", "OutOfMemory", "Error"}

\* A rank that puts Fail below Unsupported.
status_rank_fail_below_unsupported(status) ==
  CASE status = "Pass" -> 0
    [] status = "Fail" -> 1
    [] status = "Unsupported" -> 2
    [] status = "Timeout" -> 3
    [] status = "OutOfMemory" -> 4
    [] status = "Error" -> 5

status_rank(status) ==
  CASE status = "Pass" -> 0
    [] status = "Unsupported" -> 1
    [] status = "Fail" -> 2
    [] status = "Timeout" -> 3
    [] status = "OutOfMemory" -> 4
    [] status = "Error" -> 5

exit_code_for_status(status) ==
  CASE status = "Pass" -> 0
    [] status = "Fail" -> 1
    [] status = "Error" -> 2
    [] status = "Unsupported" -> 3
    [] status = "Timeout" -> 4
    [] status = "OutOfMemory" -> 5

\* The for loop of aggregate_status over checks[i ..], worst so far given.
RECURSIVE AggregateFrom(_, _, _)
AggregateFrom(checks, i, worst) ==
  IF i > Len(checks) THEN worst
  ELSE AggregateFrom(checks, i + 1,
                     IF status_rank(checks[i]) > status_rank(worst) THEN checks[i] ELSE worst)

aggregate_status(checks) == AggregateFrom(checks, 1, "Pass")

InitStatus ==
  /\ sChecks = <<>>
  /\ sPc = "running"
  /\ sStatus = "none"
  /\ sExit = -1

\* A check of the run finished with `status`.
CheckFinished(status) ==
  /\ sPc = "running"
  /\ Len(sChecks) < MaxChecks
  /\ sChecks' = Append(sChecks, status)
  /\ UNCHANGED <<sPc, sStatus, sExit>>

\* The run builds its result: status and exit code.
BuildResult ==
  /\ sPc = "running"
  /\ sStatus' = aggregate_status(sChecks)
  /\ sExit' = exit_code_for_status(aggregate_status(sChecks))
  /\ sPc' = "exited"
  /\ UNCHANGED sChecks

----------------------------------------------------------------------------
(* The property checkers: deadlock_free_check, divergence_free_check and     *)
(* determinism_check, each a breadth-first search over transitions() of the  *)
(* process at implInit, one loop iteration per step.                         *)

MaxPropState == 2   \* the checked process has the states 0 .. MaxPropState
MaxPropEdges == 3   \* and at most MaxPropEdges transitions

PropStates == 0 .. MaxPropState

PropKinds == {"deadlock", "divergence", "determinism"}

NoPropResult ==
  [status |-> "none", has_counterexample |-> FALSE, events |-> <<>>, is_minimized |-> FALSE,
   tags |-> <<>>, states |-> 0, transitions |-> 0]

PropPass(stats) ==
  [NoPropResult EXCEPT !.status = "Pass", !.states = stats.states, !.transitions = stats.transitions]

PropFail(events, tags, stats) ==
  [status |-> "Fail", has_counterexample |-> TRUE, events |-> events, is_minimized |-> FALSE,
   tags |-> tags, states |-> stats.states, transitions |-> stats.transitions]

\* visited.contains_key(state): the initial state maps to None, every other
\* discovered state to its predecessor and label.
Discovered(prev, state) == state = implInit \/ state \in DOMAIN prev

\* trace_events / trace_visible_events: the labels of the predecessor chain,
\* reversed, without tau.
trace_visible_events(visited, current) ==
  SelectSeq(reconstruct_trace(visited, current), LAMBDA label : label # TAU)

\* The for loop over `next` shared by the three searches: a successor not yet
\* visited gets its predecessor, its place in the discovery order and in the queue.
RECURSIVE PushSuccessors(_, _, _, _)
PushSuccessors(state, next, i, st) ==
  IF i > Len(next) THEN st
  ELSE IF Discovered(st.prev, next[i][2])
       THEN PushSuccessors(state, next, i + 1, st)
       ELSE PushSuccessors(state, next, i + 1,
              [queue |-> Append(st.queue, next[i][2]),
               prev |-> st.prev @@ (next[i][2] :> <<state, next[i][1]>>),
               order |-> Append(st.order, next[i][2]),
               states |-> st.states + 1])

PropInitIdle ==
  /\ pKind = "none"
  /\ pPc = "done"
  /\ pQueue = <<>>
  /\ pPrev = EmptyMap
  /\ pOrder = <<>>
  /\ pEdges = EmptyMap
  /\ pStats = [states |-> 0, transitions |-> 0]
  /\ pResult = NoPropResult

\* The state of a search after the initial state is queued.
PropInitSearch ==
  /\ pPc = "bfs"
  /\ pQueue = <<implInit>>
  /\ pPrev = EmptyMap
  /\ pOrder = <<implInit>>
  /\ pEdges = EmptyMap
  /\ pStats = [states |-> 1, transitions |-> 0]
  /\ pResult = NoPropResult

\* The transition systems of at most n transitions over a and tau between
\* PropStates whose transitions all leave states reachable from state 0.
MoreTransitions(processes) ==
  processes \cup
  UNION {{es \cup {e} : e \in ReachableFrom(es, {0}) \X ProcessLabels \X PropStates} : es \in processes}

RECURSIVE ProcessesUpTo(_)
ProcessesUpTo(n) == IF n = 0 THEN {{}} ELSE MoreTransitions(ProcessesUpTo(n - 1))

\* The inputs: one of the three checks on a process with at most MaxPropEdges
\* transitions, all leaving states reachable from its initial state 0.
InitProperty ==
  /\ implInit = 0
  /\ specInit = 0
  /\ lts \in ProcessesUpTo(MaxPropEdges)
  /\ InitRefineIdle
  /\ pKind \in PropKinds
  /\ PropInitSearch

\* ---- deadlock_free_check ----

\* Mutant of DeadlockIteration: a state without transitions is passed over.
DeadlockIterationNoBreak(queue, prev, order, stats) ==
  LET state == Head(queue)
      next == Transitions(state)
      st == PushSuccessors(state, next, 1,
              [queue |-> Tail(queue), prev |-> prev, order |-> order, states |-> stats.states])
      counted == [states |-> st.states, transitions |-> stats.transitions + Len(next)]
  IN [queue |-> st.queue, prev |-> st.prev, order |-> st.order, stats |-> counted,
      done |-> st.queue = <<>>, result |-> IF st.queue = <<>> THEN PropPass(counted) ELSE NoPropResult]

\* One iteration of the while loop, and the return once it has ended.
DeadlockIteration(queue, prev, order, stats) ==
  LET state == Head(queue)
      next == Transitions(state)
      st == PushSuccessors(state, next, 1,
              [queue |-> Tail(queue), prev |-> prev, order |-> order, states |-> stats.states])
      counted == [states |-> st.states, transitions |-> stats.transitions + Len(next)]
  IN IF next = <<>>
     THEN [queue |-> Tail(queue), prev |-> prev, order |-> order, stats |-> counted, done |-> TRUE,
           result |-> PropFail(trace_visible_events(prev, state), <<(<<"deadlock">>)>>, counted)]
     ELSE [queue |-> st.queue, prev |-> st.prev, order |-> st.order, stats |-> counted,
           done |-> st.queue = <<>>,
           result |-> IF st.queue = <<>> THEN PropPass(counted) ELSE NoPropResult]

DeadlockStep ==
  /\ pKind = "deadlock"
  /\ pPc = "bfs"
  /\ LET Store(it) ==
           /\ pQueue' = it.queue
           /\ pPrev' = it.prev
           /\ pOrder' = it.order
           /\ pStats' = it.stats
           /\ pResult' = it.result
           /\ pPc' = IF it.done THEN "done" ELSE "bfs"
     IN Store(DeadlockIteration(pQueue, pPrev, pOrder, pStats))
  /\ UNCHANGED <<pKind, pEdges>>

\* ---- divergence_free_check ----

TauTargets(next) == SelectSeq(next, LAMBDA t : t[1] = TAU)

\* adj: the tau successors recorded for each discovered state.
TauAdjacency(order, tau_edges) ==
  [s \in Range(order) |-> IF s \in DOMAIN tau_edges THEN {t[2] : t \in Range(tau_edges[s])} ELSE {}]

AdjEdges(adj) == {e \in (DOMAIN adj) \X {TAU} \X PropStates : e[3] \in adj[e[1]]}

\* tarjan_scc: the strongly connected components of adj.
tarjan_scc(adj) ==
  {{w \in DOMAIN adj : w \in ReachableFrom(AdjEdges(adj), {v}) /\ v \in ReachableFrom(AdjEdges(adj), {w})} :
     v \in DOMAIN adj}

\* Mutant of find_first_tau_cycle_node: a tau self-loop is not a cycle.
find_first_tau_cycle_node_no_self_loop(order, adj) ==
  LET in_cycle(v) == \E scc \in tarjan_scc(adj) : v \in scc /\ Cardinality(scc) > 1
      hits == {i \in 1 .. Len(order) : in_cycle(order[i])}
  IN IF hits = {} THEN 0 ELSE CHOOSE i \in hits : \A j \in hits : i <= j

\* find_first_tau_cycle_node: the position in discovery order of the first
\* state in a component of more than one state or with a tau self-loop (0 for None).
find_first_tau_cycle_node(order, adj) ==
  LET in_cycle(v) == \E scc \in tarjan_scc(adj) : v \in scc /\ (Cardinality(scc) > 1 \/ v \in adj[v])
      hits == {i \in 1 .. Len(order) : in_cycle(order[i])}
  IN IF hits = {} THEN 0 ELSE CHOOSE i \in hits : \A j \in hits : i <= j

\* What divergence_free_check returns after the search.
DivergenceResult(prev, order, tau_edges, stats) ==
  LET Built(cycle_state_idx) ==
        IF cycle_state_idx = 0 THEN PropPass(stats)
        ELSE PropFail(Append(trace_visible_events(prev, order[cycle_state_idx]), TAU),
                      <<(<<"divergence">>)>>, stats)
  IN Built(find_first_tau_cycle_node(order, TauAdjacency(order, tau_edges)))

DivergenceIteration(queue, prev, order, edges, stats) ==
  LET state == Head(queue)
      next == Transitions(state)
      st == PushSuccessors(state, next, 1,
              [queue |-> Tail(queue), prev |-> prev, order |-> order, states |-> stats.states])
      counted == [states |-> st.states, transitions |-> stats.transitions + Len(next)]
      tau_edges == IF TauTargets(next) = <<>> THEN edges ELSE edges @@ (state :> TauTargets(next))
  IN [queue |-> st.queue, prev |-> st.prev, order |-> st.order, edges |-> tau_edges, stats |-> counted,
      done |-> st.queue = <<>>,
      result |-> IF st.queue = <<>> THEN DivergenceResult(st.prev, st.order, tau_edges, counted)
                 ELSE NoPropResult]

DivergenceStep ==
  /\ pKind = "divergence"
  /\ pPc = "bfs"
  /\ LET Store(it) ==
           /\ pQueue' = it.queue
           /\ pPrev' = it.prev
           /\ pOrder' = it.order
           /\ pEdges' = it.edges
           /\ pStats' = it.stats
           /\ pResult' = it.result
           /\ pPc' = IF it.done THEN "done" ELSE "bfs"
     IN Store(DivergenceIteration(pQueue, pPrev, pOrder, pEdges, pStats))
  /\ UNCHANGED pKind

\* ---- determinism_check ----

\* compute_tau_closures: for each discovered state the states its recorded
\* tau transitions reach.
compute_tau_closures(order, transitions_from) ==
  LET tau_from == {e \in (DOMAIN transitions_from) \X {TAU} \X PropStates :
                     <<TAU, e[3]>> \in Range(transitions_from[e[1]])}
  IN [s \in Range(order) |-> ReachableFrom(tau_from, {s})]

\* by_label[label] of one closure: the closures of the targets of its label transitions.
TargetClosures(closure, label, transitions_from, tau_closures) ==
  {tau_closures[t[2]] : t \in {u \in UNION {Range(transitions_from[s]) : s \in closure} : u[1] = label}}

\* Mutant of NondeterministicAt: only the transitions of the state itself
\* are collected, not those of its tau closure.
NondeterministicAtStateOnly(state_idx, label, order, transitions_from, tau_closures) ==
  Cardinality(TargetClosures({order[state_idx]}, label, transitions_from, tau_closures)) > 1

NondeterministicAt(state_idx, label, order, transitions_from, tau_closures) ==
  Cardinality(TargetClosures(tau_closures[order[state_idx]], label, transitions_from, tau_closures)) > 1

\* The two for loops after the search: the first state in index order and
\* its first label in string order with more than one target closure.
DeterminismResult(prev, order, transitions_from, stats) ==
  LET Hits(tau_closures) ==
        {p \in (1 .. Len(order)) \X (1 .. Len(VisibleLabels)) :
           NondeterministicAt(p[1], VisibleLabels[p[2]], order, transitions_from, tau_closures)}
      Built(hits) ==
        IF hits = {} THEN PropPass(stats)
        ELSE LET First(p) ==
                   PropFail(Append(trace_visible_events(prev, order[p[1]]), VisibleLabels[p[2]]),
                            <<(<<"nondeterminism">>), (<<"label", VisibleLabels[p[2]]>>)>>, stats)
             IN First(CHOOSE p \in hits : \A q \in hits : p[1] < q[1] \/ (p[1] = q[1] /\ p[2] <= q[2]))
  IN Built(Hits(compute_tau_closures(order, transitions_from)))

DeterminismIteration(queue, prev, order, edges, stats) ==
  LET state == Head(queue)
      next == Transitions(state)
      st == PushSuccessors(state, next, 1,
              [queue |-> Tail(queue), prev |-> prev, order |-> order, states |-> stats.states])
      counted == [states |-> st.states, transitions |-> stats.transitions + Len(next)]
      transitions_from == edges @@ (state :> next)
  IN [queue |-> st.queue, prev |-> st.prev, order |-> st.order, edges |-> transitions_from,
      stats |-> counted, done |-> st.queue = <<>>,
      result |-> IF st.queue = <<>> THEN DeterminismResult(st.prev, st.order, transitions_from, counted)
                 ELSE NoPropResult]

DeterminismStep ==
  /\ pKind = "determinism"
  /\ pPc = "bfs"
  /\ LET Store(it) ==
           /\ pQueue' = it.queue
           /\ pPrev' = it.prev
           /\ pOrder' = it.order
           /\ pEdges' = it.edges
           /\ pStats' = it.stats
           /\ pResult' = it.result
           /\ pPc' = IF it.done THEN "done" ELSE "bfs"
     IN Store(DeterminismIteration(pQueue, pPrev, pOrder, pEdges, pStats))
  /\ UNCHANGED pKind

----------------------------------------------------------------------------
(* The CSPM transition provider (lts_cspm.rs): compiled programs, CspmState, *)
(* the state codec and transitions().  Strings are sequences of bytes.       *)

MaxExprId == 2        \* a program has the expression nodes 0 .. MaxExprId
MaxValue == 1         \* the channel c carries the values 0 .. MaxValue
MaxStateDepth == 2    \* states nested deeper than this are not followed

ChanA == <<97>>                \* "a", a channel without payload
ChanC == <<99>>                \* "c", a channel over 0 .. MaxValue
VarX == <<120>>                \* "x"
TauLabel == <<116, 97, 117>>   \* "tau"

\* Ordering::cmp of two byte strings: -1, 0 or 1.
RECURSIVE BytesCmp(_, _)
BytesCmp(x, y) ==
  IF x = <<>> THEN (IF y = <<>> THEN 0 ELSE -1)
  ELSE IF y = <<>> THEN 1
  ELSE IF Head(x) < Head(y) THEN -1
  ELSE IF Head(x) > Head(y) THEN 1
  ELSE BytesCmp(Tail(x), Tail(y))

\* The elements of a BTreeSet<String> or the keys of a BTreeMap in iteration order.
RECURSIVE InOrder(_)
InOrder(strings) ==
  IF strings = {} THEN <<>>
  ELSE LET least == CHOOSE x \in strings : \A y \in strings : BytesCmp(x, y) <= 0
       IN <<least>> \o InOrder(strings \ {least})

RECURSIVE Concat(_)
Concat(seqs) == IF seqs = <<>> THEN <<>> ELSE Head(seqs) \o Concat(Tail(seqs))

\* to_be_bytes of an unsigned integer of `width` bytes.
RECURSIVE to_be_bytes(_, _)
to_be_bytes(n, width) ==
  IF width = 0 THEN <<>> ELSE Append(to_be_bytes(n \div 256, width - 1), n % 256)

RECURSIVE from_be_bytes(_)
from_be_bytes(bytes) ==
  IF bytes = <<>> THEN 0
  ELSE from_be_bytes(SubSeq(bytes, 1, Len(bytes) - 1)) * 256 + bytes[Len(bytes)]

EncodeString(s) == to_be_bytes(Len(s), 4) \o s

\* ---- CspmStateCodec::encode (cspm_encode) ----

\* Mutant of cspm_encode: the length prefix of a channel set is left out.
RECURSIVE cspm_encode_without_count(_)
cspm_encode_without_count(state) ==
  CASE state[1] = "Expr" ->
         <<1>> \o to_be_bytes(state[2], 4) \o to_be_bytes(Cardinality(DOMAIN state[3]), 4)
         \o Concat([i \in 1 .. Cardinality(DOMAIN state[3]) |->
                      EncodeString(InOrder(DOMAIN state[3])[i])
                      \o to_be_bytes(state[3][InOrder(DOMAIN state[3])[i]], 8)])
    [] state[1] = "Parallel" ->
         <<2>>
         \o Concat([i \in 1 .. Cardinality(state[2]) |-> EncodeString(InOrder(state[2])[i])])
         \o cspm_encode_without_count(state[3]) \o cspm_encode_without_count(state[4])
    [] state[1] = "Hide" ->
         <<3>>
         \o Concat([i \in 1 .. Cardinality(state[2]) |-> EncodeString(InOrder(state[2])[i])])
         \o cspm_encode_without_count(state[3])

RECURSIVE cspm_encode(_)
cspm_encode(state) ==
  CASE state[1] = "Expr" ->
         <<1>> \o to_be_bytes(state[2], 4) \o to_be_bytes(Cardinality(DOMAIN state[3]), 4)
         \o Concat([i \in 1 .. Cardinality(DOMAIN state[3]) |->
                      EncodeString(InOrder(DOMAIN state[3])[i])
                      \o to_be_bytes(state[3][InOrder(DOMAIN state[3])[i]], 8)])
    [] state[1] = "Parallel" ->
         <<2>> \o to_be_bytes(Cardinality(state[2]), 4)
         \o Concat([i \in 1 .. Cardinality(state[2]) |-> EncodeString(InOrder(state[2])[i])])
         \o cspm_encode(state[3]) \o cspm_encode(state[4])
    [] state[1] = "Hide" ->
         <<3>> \o to_be_bytes(Cardinality(state[2]), 4)
         \o Concat([i \in 1 .. Cardinality(state[2]) |-> EncodeString(InOrder(state[2])[i])])
         \o cspm_encode(state[3])

\* ---- CspmStateCodec::decode (cspm_decode) ----

DecodeError(rest) == [ok |-> FALSE, val |-> <<>>, rest |-> rest]

take(bytes, n) ==
  IF Len(bytes) < n THEN DecodeError(bytes)
  ELSE [ok |-> TRUE, val |-> SubSeq(bytes, 1, n), rest |-> SubSeq(bytes, n + 1, Len(bytes))]

\* take_u32 (width 4) and take_u64 (width 8).
take_uint(bytes, width) ==
  LET Got(t) == IF t.ok THEN [t EXCEPT !.val = from_be_bytes(t.val)] ELSE t
  IN Got(take(bytes, width))

take_string(bytes) ==
  LET Got(len) == IF len.ok THEN take(len.rest, len.val) ELSE len
  IN Got(take_uint(bytes, 4))

\* for _ in 0..count { set.insert(take_string(bytes)?) }
RECURSIVE take_strings(_, _, _)
take_strings(bytes, count, set) ==
  IF count = 0 THEN [ok |-> TRUE, val |-> set, rest |-> bytes]
  ELSE LET Got(s) == IF s.ok THEN take_strings(s.rest, count - 1, set \cup {s.val}) ELSE s
       IN Got(take_string(bytes))

\* for _ in 0..count { env.insert(take_string(bytes)?, take_u64(bytes)?) }
RECURSIVE take_env(_, _, _)
take_env(bytes, count, env) ==
  IF count = 0 THEN [ok |-> TRUE, val |-> env, rest |-> bytes]
  ELSE LET Valued(key, value) ==
             IF value.ok THEN take_env(value.rest, count - 1, (key :> value.val) @@ env) ELSE value
           Keyed(key) == IF key.ok THEN Valued(key.val, take_uint(key.rest, 8)) ELSE key
       IN Keyed(take_string(bytes))

RECURSIVE decode_state(_)
decode_state(bytes) ==
  LET ExprEnv(expr, env) ==
        IF env.ok THEN [env EXCEPT !.val = <<"Expr", expr, env.val>>] ELSE env
      ExprCount(expr, count) ==
        IF count.ok THEN ExprEnv(expr, take_env(count.rest, count.val, EmptyMap)) ELSE count
      ExprId(expr) == IF expr.ok THEN ExprCount(expr.val, take_uint(expr.rest, 4)) ELSE expr
      ParRight(sync, left, right) ==
        IF right.ok THEN [right EXCEPT !.val = <<"Parallel", sync, left, right.val>>] ELSE right
      ParLeft(sync, left) ==
        IF left.ok THEN ParRight(sync, left.val, decode_state(left.rest)) ELSE left
      ParSync(sync) == IF sync.ok THEN ParLeft(sync.val, decode_state(sync.rest)) ELSE sync
      HideInner(hide, inner) ==
        IF inner.ok THEN [inner EXCEPT !.val = <<"Hide", hide, inner.val>>] ELSE inner
      HideSet(hide) == IF hide.ok THEN HideInner(hide.val, decode_state(hide.rest)) ELSE hide
      Counted(count) == IF count.ok THEN take_strings(count.rest, count.val, {}) ELSE count
      Tagged(tag) ==
        IF ~tag.ok THEN tag
        ELSE CASE tag.val = <<1>> -> ExprId(take_uint(tag.rest, 4))
               [] tag.val = <<2>> -> ParSync(Counted(take_uint(tag.rest, 4)))
               [] tag.val = <<3>> -> HideSet(Counted(take_uint(tag.rest, 4)))
               [] OTHER -> DecodeError(tag.rest)
  IN Tagged(take(bytes, 1))

cspm_decode(bytes) ==
  LET Whole(r) == IF r.ok /\ r.rest # <<>> THEN DecodeError(r.rest) ELSE r
  IN Whole(decode_state(bytes))

\* ---- programs ----

EventPats == {<<"Unit", ChanA>>, <<"InBind", ChanC, VarX>>, <<"OutVar", ChanC, VarX>>}
SyncSets == {{}, {ChanA}}
HideSets == {{}, {ChanA}, {ChanA, ChanC}}

\* The nodes compile_expr can intern once the nodes 0 .. n - 1 exist.
ExprNodes(n) ==
  LET ids == 0 .. n - 1
  IN {<<"Stop">>, <<"Ref", 0>>}
     \cup {<<"Prefix", event, next>> : event \in EventPats, next \in ids}
     \cup {<<"ChoiceExternal", left, right>> : left \in ids, right \in ids}
     \cup {<<"ChoiceInternal", left, right>> : left \in ids, right \in ids}
     \cup {<<"Parallel", p[1], p[2], sync>> : p \in ids \X ids, sync \in SyncSets}
     \cup {<<"Hide", inner, hide>> : inner \in ids, hide \in HideSets}

\* intern: a node that exists is not pushed again.
MoreExprs(vectors) ==
  UNION {{Append(exprs, node) : node \in ExprNodes(Len(exprs)) \ Range(exprs)} : exprs \in vectors}

RECURSIVE ExprVectors(_)
ExprVectors(len) == IF len = 1 THEN {<<(<<"Stop">>)>>} ELSE MoreExprs(ExprVectors(len - 1))

\* The expressions a state_from_expr or transitions call on `from` visits
\* before it returns: the operands of choice, parallel and hiding, and the
\* root of the process behind a reference.
RECURSIVE Unfolded(_, _, _)
Unfolded(exprs, root, from) ==
  LET Operands(node) ==
        CASE node[1] = "Ref" -> {root}
          [] node[1] \in {"ChoiceExternal", "Parallel"} -> {node[2], node[3]}
          [] node[1] = "Hide" -> {node[2]}
          [] OTHER -> {}
      more == from \cup UNION {Operands(exprs[id + 1]) : id \in from}
  IN IF more = from THEN from ELSE Unfolded(exprs, root, more)

\* compute_resolved: a reference resolves to the root of its process.
compute_resolved(exprs, proc_roots) ==
  [i \in 1 .. Len(exprs) |-> IF exprs[i][1] = "Ref" THEN proc_roots[exprs[i][2] + 1] ELSE i - 1]

\* The programs from_module builds for a module with one process whose body
\* is the last expression compiled: no cyclic process reference, and every
\* recursion is behind a prefix or an internal choice.
Programs ==
  {[exprs |-> exprs, proc_roots |-> <<Len(exprs) - 1>>,
    resolved |-> compute_resolved(exprs, <<Len(exprs) - 1>>)] :
     exprs \in {v \in ExprVectors(MaxExprId + 1) :
                  \A id \in Unfolded(v, Len(v) - 1, {Len(v) - 1}) : v[id + 1][1] # "Ref"}}

\* ---- states ----

\* Mutant of make_hide_state: a hidden state is wrapped as it is.
make_hide_state_nested(hide, inner) ==
  IF hide = {} THEN inner ELSE <<"Hide", hide, inner>>

make_hide_state(hide, inner) ==
  IF hide = {} THEN inner
  ELSE IF inner[1] = "Hide" THEN <<"Hide", hide \cup inner[2], inner[3]>>
       ELSE <<"Hide", hide, inner>>

\* Mutant of state_from_expr: the bindings are not passed to the state.
RECURSIVE state_from_expr_without_env(_, _, _)
state_from_expr_without_env(program, expr, env) ==
  LET node == program.exprs[expr + 1]
  IN CASE node[1] = "Ref" ->
            state_from_expr_without_env(program, program.resolved[expr + 1], EmptyMap)
       [] node[1] = "Parallel" ->
            <<"Parallel", node[4], state_from_expr_without_env(program, node[2], env),
              state_from_expr_without_env(program, node[3], env)>>
       [] node[1] = "Hide" ->
            make_hide_state(node[3], state_from_expr_without_env(program, node[2], env))
       [] OTHER -> <<"Expr", expr, EmptyMap>>

RECURSIVE state_from_expr(_, _, _)
state_from_expr(program, expr, env) ==
  LET node == program.exprs[expr + 1]
  IN CASE node[1] = "Ref" -> state_from_expr(program, program.resolved[expr + 1], EmptyMap)
       [] node[1] = "Parallel" ->
            <<"Parallel", node[4], state_from_expr(program, node[2], env),
              state_from_expr(program, node[3], env)>>
       [] node[1] = "Hide" -> make_hide_state(node[3], state_from_expr(program, node[2], env))
       [] OTHER -> <<"Expr", expr, env>>

\* format!("{channel}.{value}") for a value of one digit.
DotLabel(channel, value) == channel \o <<46, 48 + value>>

eval_event(event, env) ==
  CASE event[1] = "Unit" -> <<(<<event[2], env>>)>>
    [] event[1] = "OutVar" ->
         IF event[3] \in DOMAIN env THEN <<(<<DotLabel(event[2], env[event[3]]), env>>)>> ELSE <<>>
    [] event[1] = "InBind" ->
         IF event[2] # ChanC THEN <<>>
         ELSE [i \in 1 .. MaxValue + 1 |->
                 <<DotLabel(event[2], i - 1), (event[3] :> (i - 1)) @@ env>>]

RECURSIVE label_channel(_)
label_channel(label) ==
  IF label = <<>> \/ Head(label) = 46 THEN <<>> ELSE <<Head(label)>> \o label_channel(Tail(label))

is_sync_event(sync, label) == label # TauLabel /\ label_channel(label) \in sync

\* Mutant of ParallelMoves: a synchronized label of the left side does not
\* wait for the right side.
ParallelMovesLeftAlone(sync, left, right, left_next, right_next) ==
  [i \in 1 .. Len(left_next) |->
     <<left_next[i][1], <<"Parallel", sync, left_next[i][2], right>> >>]
  \o LET right_nonsync == SelectSeq(right_next, LAMBDA t : ~is_sync_event(sync, t[1]))
     IN [j \in 1 .. Len(right_nonsync) |->
           <<right_nonsync[j][1], <<"Parallel", sync, left, right_nonsync[j][2]>> >>]

\* The body of transitions_for_parallel_unordered once both sides are known.
ParallelMoves(sync, left, right, left_next, right_next) ==
  Concat([i \in 1 .. Len(left_next) |->
            IF is_sync_event(sync, left_next[i][1])
            THEN LET right_sync == SelectSeq(right_next, LAMBDA t : t[1] = left_next[i][1])
                 IN [j \in 1 .. Len(right_sync) |->
                       <<left_next[i][1], <<"Parallel", sync, left_next[i][2], right_sync[j][2]>> >>]
            ELSE <<(<<left_next[i][1], <<"Parallel", sync, left_next[i][2], right>> >>)>>])
  \o LET right_nonsync == SelectSeq(right_next, LAMBDA t : ~is_sync_event(sync, t[1]))
     IN [j \in 1 .. Len(right_nonsync) |->
           <<right_nonsync[j][1], <<"Parallel", sync, left, right_nonsync[j][2]>> >>]

\* Mutant of HideMoves: the whole label is looked up in the hide set.
HideMovesWholeLabel(hide, inner_next) ==
  [i \in 1 .. Len(inner_next) |->
     <<IF inner_next[i][1] # TauLabel /\ inner_next[i][1] \in hide
       THEN TauLabel ELSE inner_next[i][1],
       make_hide_state(hide, inner_next[i][2])>>]

\* The body of transitions_for_hide_unordered once the inner transitions are known.
HideMoves(hide, inner_next) ==
  [i \in 1 .. Len(inner_next) |->
     <<IF inner_next[i][1] # TauLabel /\ label_channel(inner_next[i][1]) \in hide
       THEN TauLabel ELSE inner_next[i][1],
       make_hide_state(hide, inner_next[i][2])>>]

RECURSIVE transitions_for_state_unordered(_, _)
transitions_for_state_unordered(program, state) ==
  LET OfExpr(expr, env, node) ==
        CASE node[1] = "Stop" -> <<>>
          [] node[1] = "Ref" ->
               transitions_for_state_unordered(program,
                 state_from_expr(program, program.resolved[expr + 1], EmptyMap))
          [] node[1] = "Prefix" ->
               LET Nexts(moves) ==
                     [i \in 1 .. Len(moves) |->
                        <<moves[i][1], state_from_expr(program, node[3], moves[i][2])>>]
               IN Nexts(eval_event(node[2], env))
          [] node[1] = "ChoiceExternal" ->
               transitions_for_state_unordered(program, state_from_expr(program, node[2], env))
               \o transitions_for_state_unordered(program, state_from_expr(program, node[3], env))
          [] node[1] = "ChoiceInternal" ->
               <<(<<TauLabel, state_from_expr(program, node[2], env)>>),
                 (<<TauLabel, state_from_expr(program, node[3], env)>>)>>
          [] node[1] = "Parallel" ->
               transitions_for_state_unordered(program,
                 <<"Parallel", node[4], state_from_expr(program, node[2], env),
                   state_from_expr(program, node[3], env)>>)
          [] node[1] = "Hide" ->
               transitions_for_state_unordered(program,
                 <<"Hide", node[3], state_from_expr(program, node[2], env)>>)
  IN CASE state[1] = "Expr" -> OfExpr(state[2], state[3], program.exprs[state[2] + 1])
       [] state[1] = "Parallel" ->
            ParallelMoves(state[2], state[3], state[4],
                          transitions_for_state_unordered(program, state[3]),
                          transitions_for_state_unordered(program, state[4]))
       [] state[1] = "Hide" ->
            HideMoves(state[2], transitions_for_state_unordered(program, state[3]))

\* The comparator of sort_by: the label, then the encoded next state.
TransitionCmp(x, y) ==
  IF BytesCmp(x[1], y[1]) # 0 THEN BytesCmp(x[1], y[1]) ELSE BytesCmp(cspm_encode(x[2]), cspm_encode(y[2]))

\* sort_by is stable: an element goes behind the elements not greater than it.
RECURSIVE sort_by(_)
sort_by(out) ==
  IF out = <<>> THEN <<>>
  ELSE LET Placed(sorted, x) ==
             SelectSeq(sorted, LAMBDA y : TransitionCmp(y, x) <= 0)
             \o <<x>> \o SelectSeq(sorted, LAMBDA y : TransitionCmp(y, x) > 0)
       IN Placed(sort_by(SubSeq(out, 1, Len(out) - 1)), out[Len(out)])

\* Mutant of transitions_for: the transitions in the order they were collected.
transitions_for_unsorted(program, state) == transitions_for_state_unordered(program, state)

transitions_for(program, state) == sort_by(transitions_for_state_unordered(program, state))

RECURSIVE StateDepth(_)
StateDepth(state) ==
  CASE state[1] = "Expr" -> 1
    [] state[1] = "Parallel" ->
         1 + (IF StateDepth(state[3]) >= StateDepth(state[4]) THEN StateDepth(state[3])
              ELSE StateDepth(state[4]))
    [] state[1] = "Hide" -> 1 + StateDepth(state[3])

\* ---- a search over the states of a program that stores their encodings ----

NoCall == [called |-> FALSE, state |-> <<>>, first |-> <<>>, second |-> <<>>,
           bytes |-> <<>>, decoded |-> DecodeError(<<>>)]

CspmIdle ==
  /\ cProgram = [exprs |-> <<(<<"Stop">>)>>, proc_roots |-> <<0>>, resolved |-> <<0>>]
  /\ cQueue = <<>>
  /\ cVisited = {}
  /\ cBytes = {}
  /\ cCall = NoCall
  /\ cStatus = "idle"

\* from_module, and the initial state stored.
InitCspm ==
  /\ cProgram \in Programs
  /\ LET Start(initial) ==
           /\ cQueue = <<initial>>
           /\ cVisited = {initial}
           /\ cBytes = {cspm_encode(initial)}
     IN Start(state_from_expr(cProgram, cProgram.proc_roots[1], EmptyMap))
  /\ cCall = NoCall
  /\ cStatus = "ok"

\* The successors not stored yet that the search keeps, in order.
RECURSIVE NewStates(_, _, _)
NewStates(next, i, visited) ==
  IF i > Len(next) THEN <<>>
  ELSE IF next[i][2] \in visited \/ StateDepth(next[i][2]) > MaxStateDepth
       THEN NewStates(next, i + 1, visited)
       ELSE <<next[i][2]>> \o NewStates(next, i + 1, visited \cup {next[i][2]})

\* One state taken from the queue: transitions() is called on it twice, its
\* encoding is decoded, and its new successors are stored by their encoding.
Visit ==
  /\ cStatus = "ok"
  /\ cQueue # <<>>
  /\ LET Store(state, first, second, found) ==
           /\ cCall' = [called |-> TRUE, state |-> state, first |-> first, second |-> second,
                        bytes |-> cspm_encode(state), decoded |-> cspm_decode(cspm_encode(state))]
           /\ cQueue' = Tail(cQueue) \o found
           /\ cVisited' = cVisited \cup Range(found)
           /\ cBytes' = cBytes \cup {cspm_encode(s) : s \in Range(found)}
         Found(state, first, second) == Store(state, first, second, NewStates(first, 1, cVisited))
     IN Found(Head(cQueue), transitions_for(cProgram, Head(cQueue)),
              transitions_for(cProgram, Head(cQueue)))
  /\ UNCHANGED <<cProgram, cStatus>>

\* ---- from_module on any module of one process ----

\* resolve of compute_resolved; -1 stands for Err("cyclic process reference").
\* The memo only keeps results of calls that returned.
RECURSIVE resolve(_, _, _, _)
resolve(id, exprs, proc_roots, visiting) ==
  IF id \in visiting THEN -1
  ELSE IF exprs[id + 1][1] = "Ref"
       THEN resolve(proc_roots[exprs[id + 1][2] + 1], exprs, proc_roots, visiting \cup {id})
       ELSE id

\* ProgramBuilder::finish: the program, or the error of compute_resolved.
finish(exprs, proc_roots) ==
  LET Finished(resolved) ==
        IF \E i \in 1 .. Len(resolved) : resolved[i] = -1
        THEN [ok |-> FALSE, message |-> "cyclic process reference",
              program |-> [exprs |-> exprs, proc_roots |-> proc_roots, resolved |-> <<>>]]
        ELSE [ok |-> TRUE, message |-> "",
              program |-> [exprs |-> exprs, proc_roots |-> proc_roots, resolved |-> resolved]]
  IN Finished([i \in 1 .. Len(exprs) |-> resolve(i - 1, exprs, proc_roots, {})])

\* The expressions a call on `expr` calls the same function on: state_from_expr
\* goes through references, parallel and hiding (lts_cspm.rs:499-515), the
\* transitions of an expression also through external choice (lts_cspm.rs:291-344).
StateFromExprKinds == {"Ref", "Parallel", "Hide"}
TransitionsKinds == {"Ref", "ChoiceExternal", "Parallel", "Hide"}

Callees(program, expr, kinds) ==
  LET Operands(node) ==
        IF node[1] \notin kinds THEN {}
        ELSE CASE node[1] = "Ref" -> {program.resolved[expr + 1]}
               [] node[1] \in {"ChoiceExternal", "Parallel"} -> {node[2], node[3]}
               [] node[1] = "Hide" -> {node[2]}
  IN Operands(program.exprs[expr + 1])

RECURSIVE CalledFrom(_, _, _)
CalledFrom(program, from, kinds) ==
  LET more == from \cup UNION {Callees(program, expr, kinds) : expr \in from}
  IN IF more = from THEN from ELSE CalledFrom(program, more, kinds)

\* A call on expr comes back to an expression it is still working on: the
\* recursion has no end and the stack overflows.
Recurs(program, expr, kinds) ==
  \E e \in CalledFrom(program, {expr}, kinds) :
    e \in CalledFrom(program, Callees(program, e, kinds), kinds)

state_from_expr_overflows(program, expr) == Recurs(program, expr, StateFromExprKinds)

RECURSIVE Leaves(_)
Leaves(state) ==
  CASE state[1] = "Expr" -> {state[2]}
    [] state[1] = "Parallel" -> Leaves(state[3]) \cup Leaves(state[4])
    [] state[1] = "Hide" -> Leaves(state[3])

\* transitions() on a state: the recursion over expressions, and the
\* state_from_expr calls for the targets of prefixes and internal choices.
transitions_overflows(program, state) ==
  \E leaf \in Leaves(state) :
    \/ Recurs(program, leaf, TransitionsKinds)
    \/ \E e \in CalledFrom(program, {leaf}, TransitionsKinds) :
         LET node == program.exprs[e + 1]
         IN \/ node[1] = "Prefix" /\ state_from_expr_overflows(program, node[3])
            \/ /\ node[1] = "ChoiceInternal"
               /\ \/ state_from_expr_overflows(program, node[2])
                  \/ state_from_expr_overflows(program, node[3])

\* The modules of one process P whose body, compiled last, is the initial
\* expression: every vector of nodes, references to P anywhere.
InitCompile ==
  /\ cProgram \in {[exprs |-> exprs, proc_roots |-> <<Len(exprs) - 1>>, resolved |-> <<>>] :
                     exprs \in ExprVectors(MaxExprId + 1)}
  /\ cQueue = <<>>
  /\ cVisited = {}
  /\ cBytes = {}
  /\ cCall = NoCall
  /\ cStatus = "module"

\* from_module: finish, then the initial state.
FromModule ==
  /\ cStatus = "module"
  /\ LET Started(program, initial) ==
           /\ cStatus' = "ok"
           /\ cProgram' = program
           /\ cQueue' = <<initial>>
           /\ cVisited' = {initial}
           /\ cBytes' = {cspm_encode(initial)}
         Built(result) ==
           IF ~result.ok
           THEN cStatus' = result.message /\ UNCHANGED <<cProgram, cQueue, cVisited, cBytes>>
           ELSE IF state_from_expr_overflows(result.program, result.program.proc_roots[1])
                THEN /\ cStatus' = "overflow"
                     /\ cProgram' = result.program
                     /\ UNCHANGED <<cQueue, cVisited, cBytes>>
                ELSE Started(result.program,
                             state_from_expr(result.program, result.program.proc_roots[1], EmptyMap))
     IN Built(finish(cProgram.exprs, cProgram.proc_roots))
  /\ UNCHANGED cCall

\* transitions() on the next state of the search returns.
TransitionsCall ==
  /\ cStatus = "ok"
  /\ cQueue # <<>>
  /\ ~transitions_overflows(cProgram, Head(cQueue))
  /\ Visit

\* transitions() on the next state of the search does not return.
TransitionsOverflow ==
  /\ cStatus = "ok"
  /\ cQueue # <<>>
  /\ transitions_overflows(cProgram, Head(cQueue))
  /\ cStatus' = "overflow"
  /\ cCall' = [NoCall EXCEPT !.state = Head(cQueue)]
  /\ UNCHANGED <<cProgram, cQueue, cVisited, cBytes>>

----------------------------------------------------------------------------
(* The specifications. *)

InitCspmUnused == CspmIdle

InitPropertyUnused == PropInitIdle

InitExploreUnused ==
  /\ eProvider = [s \in States |-> <<>>]
  /\ eInitial = 0
  /\ eMode = "serial"
  /\ eWorkers = 1
  /\ InitExploreIdle

InitRefineUnused ==
  /\ lts = {}
  /\ specInit = 0
  /\ implInit = 0
  /\ InitRefineIdle

InitHybridUnused ==
  /\ hOptions = [spill_threshold |-> 0, index_flush_every |-> 0]
  /\ hLog = NoLogFile
  /\ hExisting = FALSE
  /\ InitHybridIdle

NextRefine ==
  \/ StartCheck /\ UNCHANGED <<evars, dvars, hvars, mvars, svars, pvars, cvars>>
  \/ BfsStep /\ UNCHANGED <<evars, dvars, hvars, mvars, svars, pvars, cvars>>
  \/ ReturnCheck /\ UNCHANGED <<evars, dvars, hvars, mvars, svars, pvars, cvars>>

InitSpecRefine == InitRefine /\ InitExploreUnused /\ InitDisk /\ InitHybridUnused
  /\ InitMinimizeUnused /\ InitStatus /\ InitPropertyUnused /\ InitCspmUnused

SpecRefine == InitSpecRefine /\ [][NextRefine]_vars

NextClosure ==
  \/ \E seeds \in SeqsUpTo(LtsStates, MaxSeeds) :
       TauClosureCall(seeds) /\ UNCHANGED <<evars, dvars, hvars, mvars, svars, pvars, cvars>>

InitSpecClosure == InitClosure /\ InitExploreUnused /\ InitDisk /\ InitHybridUnused
  /\ InitMinimizeUnused /\ InitStatus /\ InitPropertyUnused /\ InitCspmUnused

\* tau_closure called on any seeds under any provider.
SpecClosure == InitSpecClosure /\ [][NextClosure]_vars

InitSpecRefineSeparate == InitRefineSeparate /\ InitExploreUnused /\ InitDisk /\ InitHybridUnused
  /\ InitMinimizeUnused /\ InitStatus /\ InitPropertyUnused /\ InitCspmUnused

\* The checks of an implementation against a specification that shares no
\* state with it.
SpecRefineSeparate == InitSpecRefineSeparate /\ [][NextRefine]_vars

NextExplore ==
  \/ ExploreStart /\ UNCHANGED <<rvars, dvars, hvars, mvars, svars, pvars, cvars>>
  \/ SerialStep /\ UNCHANGED <<rvars, dvars, hvars, mvars, svars, pvars, cvars>>
  \/ ExploreReturn /\ UNCHANGED <<rvars, dvars, hvars, mvars, svars, pvars, cvars>>
  \/ Dispatch /\ UNCHANGED <<rvars, dvars, hvars, mvars, svars, pvars, cvars>>
  \/ \E i \in 1 .. Len(eTaskState) : WorkerTake(i) /\ UNCHANGED <<rvars, dvars, hvars, mvars, svars, pvars, cvars>>
  \/ \E i \in 1 .. Len(eTaskState) : WorkerFinish(i) /\ UNCHANGED <<rvars, dvars, hvars, mvars, svars, pvars, cvars>>
  \/ Collect /\ UNCHANGED <<rvars, dvars, hvars, mvars, svars, pvars, cvars>>
  \/ MainInsert /\ UNCHANGED <<rvars, dvars, hvars, mvars, svars, pvars, cvars>>
  \/ EndLevel /\ UNCHANGED <<rvars, dvars, hvars, mvars, svars, pvars, cvars>>

InitSpecExplore == InitExplore /\ InitRefineUnused /\ InitDisk /\ InitHybridUnused
  /\ InitMinimizeUnused /\ InitStatus /\ InitPropertyUnused /\ InitCspmUnused

SpecExplore == InitSpecExplore /\ [][NextExplore]_vars

NextExploreSerial ==
  \/ ExploreStart /\ UNCHANGED <<rvars, dvars, hvars, mvars, svars, pvars, cvars>>
  \/ SerialStep /\ UNCHANGED <<rvars, dvars, hvars, mvars, svars, pvars, cvars>>
  \/ ExploreReturn /\ UNCHANGED <<rvars, dvars, hvars, mvars, svars, pvars, cvars>>

InitSpecExploreSerial == InitSpecExplore /\ eMode = "serial"

\* explore with one worker is a function call on one thread: once entered it
\* keeps running.
SpecExploreSerial == InitSpecExploreSerial /\ [][NextExploreSerial]_vars /\ WF_vars(NextExploreSerial)

NextDisk ==
  \/ \E p \in Procs, options \in OpenOptionsSet : OpenCall(p, options) /\ UNCHANGED <<rvars, evars, hvars, mvars, svars, pvars, cvars>>
  \/ \E p \in Procs : LockAttempt(p) /\ UNCHANGED <<rvars, evars, hvars, mvars, svars, pvars, cvars>>
  \/ \E p \in Procs, state \in DiskStates : Insert(p, state) /\ UNCHANGED <<rvars, evars, hvars, mvars, svars, pvars, cvars>>
  \/ \E p \in Procs, state \in DiskStates :
       \E written \in 0 .. Len(LogRecord(encode(state))) :
         Killed(p, state, written) /\ UNCHANGED <<rvars, evars, hvars, mvars, svars, pvars, cvars>>
  \/ \E p \in Procs : Drop(p) /\ UNCHANGED <<rvars, evars, hvars, mvars, svars, pvars, cvars>>
  \/ RemoveStaleLock /\ UNCHANGED <<rvars, evars, hvars, mvars, svars, pvars, cvars>>

InitSpecDisk == InitDisk /\ InitRefineUnused /\ InitExploreUnused /\ InitHybridUnused
  /\ InitMinimizeUnused /\ InitStatus /\ InitPropertyUnused /\ InitCspmUnused

SpecDisk == InitSpecDisk /\ [][NextDisk]_vars

\* One process using the disk store, and the foreign writes to its files
\* while no store is open.
NextDiskTamper ==
  \/ \E options \in OpenOptionsSet : OpenCall(1, options) /\ UNCHANGED <<rvars, evars, hvars, mvars, svars, pvars, cvars>>
  \/ LockAttempt(1) /\ UNCHANGED <<rvars, evars, hvars, mvars, svars, pvars, cvars>>
  \/ \E state \in DiskStates : Insert(1, state) /\ UNCHANGED <<rvars, evars, hvars, mvars, svars, pvars, cvars>>
  \/ \E state \in DiskStates :
       \E written \in 0 .. Len(LogRecord(encode(state))) :
         Killed(1, state, written) /\ UNCHANGED <<rvars, evars, hvars, mvars, svars, pvars, cvars>>
  \/ Drop(1) /\ UNCHANGED <<rvars, evars, hvars, mvars, svars, pvars, cvars>>
  \/ RemoveStaleLock /\ UNCHANGED <<rvars, evars, hvars, mvars, svars, pvars, cvars>>
  \/ RemoveIndex /\ UNCHANGED <<rvars, evars, hvars, mvars, svars, pvars, cvars>>
  \/ BreakIndex /\ UNCHANGED <<rvars, evars, hvars, mvars, svars, pvars, cvars>>
  \/ AppendInvalidLine /\ UNCHANGED <<rvars, evars, hvars, mvars, svars, pvars, cvars>>
  \/ OverwriteRecord /\ UNCHANGED <<rvars, evars, hvars, mvars, svars, pvars, cvars>>

InitSpecDiskTamper == InitDisk /\ InitRefineUnused /\ InitExploreUnused /\ InitHybridUnused
  /\ InitMinimizeUnused /\ InitStatus /\ InitPropertyUnused /\ InitCspmUnused

SpecDiskTamper == InitSpecDiskTamper /\ [][NextDiskTamper]_vars

\* One process using the disk store, and the foreign writes to its log and
\* to the records of its side-car while no store is open.
NextDiskLock ==
  \/ \E options \in OpenOptionsSet : OpenCall(1, options) /\ UNCHANGED <<rvars, evars, hvars, mvars, svars, pvars, cvars>>
  \/ LockAttempt(1) /\ UNCHANGED <<rvars, evars, hvars, mvars, svars, pvars, cvars>>
  \/ \E state \in DiskStates : Insert(1, state) /\ UNCHANGED <<rvars, evars, hvars, mvars, svars, pvars, cvars>>
  \/ \E state \in DiskStates :
       \E written \in 0 .. Len(LogRecord(encode(state))) :
         Killed(1, state, written) /\ UNCHANGED <<rvars, evars, hvars, mvars, svars, pvars, cvars>>
  \/ Drop(1) /\ UNCHANGED <<rvars, evars, hvars, mvars, svars, pvars, cvars>>
  \/ RemoveStaleLock /\ UNCHANGED <<rvars, evars, hvars, mvars, svars, pvars, cvars>>
  \/ AppendInvalidLine /\ UNCHANGED <<rvars, evars, hvars, mvars, svars, pvars, cvars>>
  \/ AppendInvalidIndexRecord /\ UNCHANGED <<rvars, evars, hvars, mvars, svars, pvars, cvars>>

SpecDiskLock == InitSpecDiskTamper /\ [][NextDiskLock]_vars

NextHybrid ==
  \/ HybridOpen /\ UNCHANGED <<rvars, evars, dvars, mvars, svars, pvars, cvars>>
  \/ \E state \in HybridStates : \E order \in Orders(hMem \cup {state}) :
       HybridInsert(state, order) /\ UNCHANGED <<rvars, evars, dvars, mvars, svars, pvars, cvars>>
  \/ SetReadonly /\ UNCHANGED <<rvars, evars, dvars, mvars, svars, pvars, cvars>>
  \/ SetWritable /\ UNCHANGED <<rvars, evars, dvars, mvars, svars, pvars, cvars>>
  \/ HybridDrop /\ UNCHANGED <<rvars, evars, dvars, mvars, svars, pvars, cvars>>

InitSpecHybrid == InitHybrid /\ InitRefineUnused /\ InitExploreUnused /\ InitDisk
  /\ InitMinimizeUnused /\ InitStatus /\ InitPropertyUnused /\ InitCspmUnused

SpecHybrid == InitSpecHybrid /\ [][NextHybrid]_vars

NextMinimize ==
  \/ \E answer \in BOOLEAN : MinimizeStart(answer) /\ UNCHANGED <<rvars, evars, dvars, hvars, svars, pvars, cvars>>
  \/ \E answer \in BOOLEAN : TryDelete(answer) /\ UNCHANGED <<rvars, evars, dvars, hvars, svars, pvars, cvars>>
  \/ MinimizeReturn /\ UNCHANGED <<rvars, evars, dvars, hvars, svars, pvars, cvars>>
  \/ MinimizeAgain /\ UNCHANGED <<rvars, evars, dvars, hvars, svars, pvars, cvars>>

InitSpecMinimize == InitMinimize /\ InitRefineUnused /\ InitExploreUnused /\ InitDisk /\ InitHybridUnused
  /\ InitStatus /\ InitPropertyUnused /\ InitCspmUnused

SpecMinimize == InitSpecMinimize /\ [][NextMinimize]_vars

\* minimize_with_oracle is a function call: once entered it keeps running.
SpecMinimizeLive == SpecMinimize /\ WF_vars(NextMinimize)

NextStatus ==
  \/ \E status \in Statuses : CheckFinished(status) /\ UNCHANGED <<rvars, evars, dvars, hvars, mvars, pvars, cvars>>
  \/ BuildResult /\ UNCHANGED <<rvars, evars, dvars, hvars, mvars, pvars, cvars>>

InitSpecStatus == InitStatus /\ InitRefineUnused /\ InitExploreUnused /\ InitDisk /\ InitHybridUnused
  /\ InitMinimizeUnused /\ InitPropertyUnused /\ InitCspmUnused

SpecStatus == InitSpecStatus /\ [][NextStatus]_vars

NextProperty ==
  \/ DeadlockStep /\ UNCHANGED <<rvars, evars, dvars, hvars, mvars, svars, cvars>>
  \/ DivergenceStep /\ UNCHANGED <<rvars, evars, dvars, hvars, mvars, svars, cvars>>
  \/ DeterminismStep /\ UNCHANGED <<rvars, evars, dvars, hvars, mvars, svars, cvars>>

InitSpecProperty == InitProperty /\ InitExploreUnused /\ InitDisk /\ InitHybridUnused
  /\ InitMinimizeUnused /\ InitStatus /\ InitCspmUnused

\* The three property checks on one process.
SpecProperty == InitSpecProperty /\ [][NextProperty]_vars

NextCspm ==
  \/ Visit /\ UNCHANGED <<rvars, evars, dvars, hvars, mvars, svars, pvars>>

InitSpecCspm == InitCspm /\ InitRefineUnused /\ InitExploreUnused /\ InitDisk /\ InitHybridUnused
  /\ InitMinimizeUnused /\ InitStatus /\ InitPropertyUnused

\* The states of every program, visited breadth-first.
SpecCspm == InitSpecCspm /\ [][NextCspm]_vars

NextCompile ==
  \/ FromModule /\ UNCHANGED <<rvars, evars, dvars, hvars, mvars, svars, pvars>>
  \/ TransitionsCall /\ UNCHANGED <<rvars, evars, dvars, hvars, mvars, svars, pvars>>
  \/ TransitionsOverflow /\ UNCHANGED <<rvars, evars, dvars, hvars, mvars, svars, pvars>>

InitSpecCompile == InitCompile /\ InitRefineUnused /\ InitExploreUnused /\ InitDisk /\ InitHybridUnused
  /\ InitMinimizeUnused /\ InitStatus /\ InitPropertyUnused

\* Every module of one process compiled, and the states of the program searched.
SpecCompile == InitSpecCompile /\ [][NextCompile]_vars

----------------------------------------------------------------------------
(* Reference semantics for the refinement claims: the visible traces of a   *)
(* process, defined on single states and paths (no closures, no search).    *)

TraceBound == 4

TauEdges == {e \in lts : e[2] = TAU}

\* s can perform the visible trace t, taking tau steps freely.
RECURSIVE CanPerform(_, _)
CanPerform(s, t) ==
  IF t = <<>> THEN TRUE
  ELSE \E e \in lts :
         /\ e[1] \in ReachableFrom(TauEdges, {s})
         /\ e[2] = Head(t)
         /\ CanPerform(e[3], Tail(t))

VisibleTraces == SeqsUpTo(Range(VisibleLabels), TraceBound)

TraceIncluded ==
  \A t \in VisibleTraces : CanPerform(implInit, t) => CanPerform(specInit, t)

AllChecked == \A m \in Range(Models) : rResults[m].status # "none"

\* C1 (refinement reflexivity): when spec and impl are the same process, every
\* check that has returned, under T, F and FD, returned Pass without a counterexample.
C1_Reflexive ==
  specInit = implInit =>
    \A m \in Range(Models) :
      rResults[m].status # "none" =>
        rResults[m].status = "Pass" /\ ~rResults[m].has_counterexample

\* C1 witness: a process with a tau transition and a visible one has passed all three checks against itself.
C1_Witness ==
  /\ specInit = implInit
  /\ AllChecked
  /\ \E e \in lts : e[1] = implInit /\ e[2] = TAU
  /\ \E e \in lts : e[2] # TAU
  /\ \A m \in Range(Models) : rResults[m].status = "Pass"

\* C2 as stated (model strength ordering): FD Pass implies F Pass, and F Pass
\* implies T Pass, on the same pair.
C2_Original ==
  AllChecked =>
    /\ rResults["FD"].status = "Pass" => rResults["F"].status = "Pass"
    /\ rResults["F"].status = "Pass" => rResults["T"].status = "Pass"

\* C2 amended: an FD Pass reached without pruning any node (no specification
\* closure met by the search diverges) implies F Pass, and F Pass implies T Pass.
C2_Ordering ==
  AllChecked =>
    /\ (rResults["FD"].status = "Pass" /\ rResults["FD"].fd.divergence_prunes = 0)
         => rResults["F"].status = "Pass"
    /\ rResults["F"].status = "Pass" => rResults["T"].status = "Pass"

\* C2 witness: distinct processes, FD passed without pruning after following a
\* visible label, and F and T passed too.
C2_Witness ==
  /\ AllChecked
  /\ specInit # implInit
  /\ rResults["FD"].status = "Pass"
  /\ rResults["FD"].fd.divergence_prunes = 0
  /\ rResults["FD"].transitions > 0
  /\ rResults["F"].status = "Pass"
  /\ rResults["T"].status = "Pass"

\* C3 (traces model): the T check passes iff every visible trace of the
\* implementation (tau steps taken freely) is a trace of the specification;
\* otherwise it fails with tag trace_mismatch, and the events it returns are a
\* trace the implementation performs and the specification does not.
C3_TraceRefinement ==
  rResults["T"].status # "none" =>
    /\ rResults["T"].status = "Pass" <=> TraceIncluded
    /\ rResults["T"].status # "Pass" =>
         /\ rResults["T"].status = "Fail"
         /\ <<"trace_mismatch">> \in Range(rResults["T"].tags)
         /\ CanPerform(implInit, rResults["T"].events)
         /\ ~CanPerform(specInit, rResults["T"].events)

\* C3 witness: the T check failed with a non-empty trace on an implementation
\* whose initial state has a tau transition.
C3_Witness ==
  /\ rResults["T"].status = "Fail"
  /\ Len(rResults["T"].events) >= 1
  /\ \E e \in lts : e[1] = implInit /\ e[2] = TAU

----------------------------------------------------------------------------
(* Reference semantics for the explorer claims: reachability and the       *)
(* level-by-level candidate sequence, defined on sets.                      *)

RefReach == Reach(eProvider, {eInitial})

\* The candidates of the levels from `frontier` on: for each level the
\* successors of its states in ascending order without duplicates.
RECURSIVE LevelSequence(_, _)
LevelSequence(frontier, visited) ==
  IF frontier = {} THEN <<>>
  ELSE LET Next(cands) ==
             SetToSortedSeq(cands) \o LevelSequence(cands \ visited, visited \cup cands)
       IN Next(UNION {Range(eProvider[s]) : s \in frontier})

RefInsertSequence == <<eInitial>> \o LevelSequence({eInitial}, {eInitial})

InsertedStates == [i \in 1 .. Len(eInsertLog) |-> eInsertLog[i].state]

IsPrefix(s, t) == Len(s) <= Len(t) /\ s = SubSeq(t, 1, Len(s))

\* C4 (explorer equivalence): whatever the mode, the worker count and the
\* scheduling of the workers, a finished exploration returns the number of
\* reachable states and the number of transitions leaving them, so all three
\* explorers return identical Stats.
C4_SameStats ==
  ePc = "done" =>
    eStats = [states |-> Cardinality(RefReach), transitions |-> SumLen(eProvider, RefReach)]

\* C4 witness: a non-deterministic parallel run with two workers finished on
\* a provider with three reachable states and three transitions.
C4_Witness ==
  /\ ePc = "done"
  /\ eMode = "parallel"
  /\ eWorkers = 2
  /\ eStats.states = 3
  /\ eStats.transitions = 3

\* C5 (deterministic insertion order): in deterministic mode the store.insert
\* calls made so far are a prefix of the reference sequence (the initial state,
\* then per level the candidates ascending without duplicates), and the whole
\* of it when the run is finished; the sequence depends on the provider alone.
C5_Reproducible ==
  eMode = "deterministic" =>
    /\ IsPrefix(InsertedStates, RefInsertSequence)
    /\ ePc = "done" => InsertedStates = RefInsertSequence

\* C5 witness: a finished deterministic run with two workers on a provider
\* that returns the successors of the initial state in descending order.
C5_Witness ==
  /\ ePc = "done"
  /\ eMode = "deterministic"
  /\ eWorkers = 2
  /\ Len(eProvider[eInitial]) >= 2
  /\ eProvider[eInitial][1] > eProvider[eInitial][2]
  /\ Len(eInsertLog) >= 4

\* C6 (inserts by the calling thread only): every store.insert call was made
\* by the calling thread while no item of the level was running or pending,
\* and whenever the calling thread is in its insert loop all items are done.
C6_MainThreadInserts ==
  /\ \A k \in 1 .. Len(eInsertLog) :
       /\ eInsertLog[k].thread = "main"
       /\ eInsertLog[k].running = 0
       /\ eInsertLog[k].unfinished = 0
  /\ ePc = "insert" => Unfinished = {}

\* C6 witness: the calling thread is inserting the candidates of a level that
\* two workers expanded as two items.
C6_Witness ==
  /\ ePc = "insert"
  /\ eMode # "serial"
  /\ eWorkers = 2
  /\ Len(eTasks) = 2
  /\ Len(eInsertLog) >= 4

----------------------------------------------------------------------------
(* The disk state store. *)

OpenReturned == dEvent.op = "open"

\* C7: a store re-opened after a drop holds exactly the states the dropped
\* store had at its own open plus those whose insert returned true, whatever
\* index_flush_every >= 1 was in use; and insert returns false exactly for the
\* states the store holds (those of its open and those acknowledged since).
C7_RoundTrip ==
  /\ (OpenReturned /\ dEvent.result = "Ok" /\ dEvent.expected.known)
       => dEvent.atOpen = dEvent.expected.states
  /\ dEvent.op = "insert" => (dEvent.returned <=> ~dEvent.known)

\* A store dropped with an insert not yet flushed to the index is re-opened
\* and holds every state.
C7_Witness ==
  /\ OpenReturned
  /\ dEvent.result = "Ok"
  /\ dEvent.expected.known
  /\ dEvent.expected.states = DiskStates
  /\ dEvent.expected.pending > 0

\* C8: an open of a store whose log ends with an unterminated line (left by a
\* process killed inside an insert) returns no error, cuts the tail and holds
\* exactly the states of the complete records.
C8_CrashSafety ==
  (OpenReturned /\ dEvent.partial /\ dEvent.options.index_flush_every >= 1)
    => /\ dEvent.result = "Ok"
       /\ ~PartialTail(dLog)
       /\ dEvent.atOpen = dEvent.complete

\* What open does provide for a log with an unterminated line: if the lock
\* file of the killed process is gone, the open succeeds, the tail is cut and
\* the store holds the states of the complete records.
PartialTailRecovery ==
  (OpenReturned /\ dEvent.partial /\ dEvent.options.index_flush_every >= 1 /\ ~dEvent.stale)
    => /\ dEvent.result = "Ok"
       /\ ~PartialTail(dLog)
       /\ dEvent.atOpen = dEvent.complete

\* An open that fails for a log with an unterminated line met the lock file
\* of a killed process.
PartialTailFailure ==
  (OpenReturned /\ dEvent.partial /\ dEvent.result = "WouldBlock") => dEvent.stale

\* At most one process has the store open, and it is the one named in the lock file.
OneHolder ==
  /\ Cardinality({p \in Procs : dStore[p].pc = "open"}) <= 1
  /\ \A p \in Procs : dStore[p].pc = "open" => (HeldLive(dLock) /\ dLock.holder = p)

\* C9 as stated: at most one instance is open on the path; while an instance
\* holds the lock file, every other open with lock_retry_count = 0 fails with
\* WouldBlock and leaves the log and the index as they were.
C9_Original ==
  /\ OneHolder
  /\ (OpenReturned /\ dEvent.locked /\ dEvent.options.lock_retry_count = 0)
       => (dEvent.result = "WouldBlock" /\ ~dEvent.modified)

\* C9 amended: the same for every other open with lock_retry_count = 0 and
\* index_flush_every >= 1 (index_flush_every = 0 is rejected with InvalidInput
\* before the lock file is looked at).
C9_Exclusion ==
  /\ OneHolder
  /\ (OpenReturned /\ dEvent.locked /\ dEvent.options.lock_retry_count = 0
        /\ dEvent.options.index_flush_every >= 1)
       => (dEvent.result = "WouldBlock" /\ ~dEvent.modified)

\* An open with no retry fails with WouldBlock while the other process has the store open.
C9_Witness ==
  /\ OpenReturned
  /\ dEvent.locked
  /\ dEvent.options.lock_retry_count = 0
  /\ dEvent.options.index_flush_every >= 1
  /\ dEvent.result = "WouldBlock"
  /\ \E p \in Procs : p # dEvent.proc /\ dStore[p].pc = "open" /\ dStore[p].index # {}

\* C10: open_with_options with lock_retry_count = n makes at most n + 1 lock
\* attempts; it returns WouldBlock only when the first attempt and all n
\* retries met the lock file; an attempt that finds the lock file gone makes
\* the open succeed; and the metrics of the opened store report
\* lock_retries = lock_contention_events = the number of failed attempts <= n.
C10_LockRetry ==
  /\ \A p \in Procs : dStore[p].pc = "opening" =>
       /\ dSession[p].attempts <= dStore[p].lock_retry_count
       /\ dSession[p].failed = dSession[p].attempts
  /\ OpenReturned =>
       /\ dEvent.attempts <= dEvent.options.lock_retry_count + 1
       /\ dEvent.result = "WouldBlock" =>
            /\ dEvent.attempts = dEvent.options.lock_retry_count + 1
            /\ dEvent.failed = dEvent.attempts
       /\ dEvent.free => dEvent.result = "Ok"
       /\ dEvent.result = "Ok" =>
            /\ dEvent.failed = dEvent.attempts - 1
            /\ dEvent.failed <= dEvent.options.lock_retry_count
            /\ dStore[dEvent.proc].metrics.lock_retries = dEvent.failed
            /\ dStore[dEvent.proc].metrics.lock_contention_events = dEvent.failed

\* An open succeeds on its last retry, after the holder dropped the store.
C10_Witness ==
  /\ OpenReturned
  /\ dEvent.result = "Ok"
  /\ dEvent.options.lock_retry_count = MaxRetry
  /\ dEvent.failed = MaxRetry

\* The side-car as the open found it has a valid header that names the size
\* the log had.
IndexTrusted ==
  /\ dEvent.idx.exists
  /\ parse_index_header(dEvent.idx.header).ok
  /\ parse_index_header(dEvent.idx.header).log_len = dEvent.log_len

\* C11: an open that gets the lock uses the side-car only if its header is
\* valid and names the current size of the log; when the side-car is missing,
\* has no valid header or names another size, the index is rebuilt from the
\* log and a fresh side-car (the rebuilt records, the size of the log) is
\* written; and if the log holds only what the store wrote, the index loaded
\* is the set of the complete records of the log.
C11_IndexTrust ==
  (OpenReturned /\ dEvent.free) =>
    /\ ~dEvent.rebuilt => IndexTrusted
    /\ ~IndexTrusted => dEvent.rebuilt
    /\ (dEvent.rebuilt /\ dEvent.result = "Ok") =>
         /\ dIdx = write_index_file(dStore[dEvent.proc].index, Len(dLog))
         /\ dStore[dEvent.proc].current_log_len = Len(dLog)
    /\ (dEvent.result = "Ok" /\ ~dEvent.invalid) => dEvent.atOpen = dEvent.complete

\* An open finds a side-car whose header names an older size of the log and
\* rebuilds a non-empty index.
C11_Witness ==
  /\ OpenReturned
  /\ dEvent.result = "Ok"
  /\ dEvent.rebuilt
  /\ dEvent.idx.exists
  /\ parse_index_header(dEvent.idx.header).ok
  /\ parse_index_header(dEvent.idx.header).log_len # dEvent.log_len
  /\ dEvent.atOpen = DiskStates

----------------------------------------------------------------------------
(* The hybrid store. *)

\* is_spilling()
is_spilling == hSpill.pc = "open"

\* C13: an insert of a spilling store whose mirroring to the spill store
\* fails returns the error and leaves the set in memory as it was (len()
\* unchanged, the state not retained); the insert of that state made once the
\* disk can be written again returns true.
C13_AllOrNothing ==
  hEvent.op = "insert" =>
    /\ (hEvent.had_spill /\ hEvent.result # "Ok") =>
         /\ hEvent.len_after = hEvent.len_before
         /\ hEvent.state \notin hMem
    /\ (hEvent.result = "Ok" /\ hEvent.failed_before /\ ~hEvent.acked_before) => hEvent.returned

\* C14: HybridStateStore::open (with a spill_threshold >= 1) fails with
\* AlreadyExists when a file exists at the spill path, and the spill store
\* never holds a state that was not inserted into the hybrid store.
C14_ExistingSpillPath ==
  /\ (hEvent.op = "open" /\ hEvent.existing /\ hOptions.spill_threshold >= 1)
       => hEvent.result = "AlreadyExists"
  /\ is_spilling => StatesOf(hSpill.index) \subseteq hMem

\* C15: while the number of distinct states inserted is at most
\* spill_threshold the store is not spilling and has created no file; from the
\* insert that takes the number past spill_threshold on it is spilling; and
\* after every successful insert of a spilling store the spill store holds
\* exactly the states held in memory.
C15_SpillMirror ==
  /\ Cardinality(hAcked) <= hOptions.spill_threshold =>
       (~is_spilling /\ ~hLock /\ ~hIdx.exists)
  /\ (hPc = "open" /\ Cardinality(hAcked) > hOptions.spill_threshold) => is_spilling
  /\ (hEvent.op = "insert" /\ hEvent.result = "Ok" /\ is_spilling) =>
       /\ StatesOf(hSpill.index) = hMem
       /\ {s \in HybridStates : hex_encode(encode(s)) \in CompleteLines(hLog.data, <<>>)} = hMem

\* What the hybrid store does provide: with no file at the spill path
\* beforehand and no failed insert so far, the spill store of a spilling store
\* holds exactly the states held in memory, and so does its log.
SpillMirrorOnFreshPath ==
  (is_spilling /\ ~hExisting /\ hFailed = {}) =>
    /\ StatesOf(hSpill.index) = hMem
    /\ {s \in HybridStates : hex_encode(encode(s)) \in CompleteLines(hLog.data, <<>>)} = hMem
    /\ hAcked = hMem

----------------------------------------------------------------------------
(* The minimizer against any oracle. *)

\* a is obtained from b by deleting events.
RECURSIVE IsSubsequence(_, _)
IsSubsequence(a, b) ==
  IF a = <<>> THEN TRUE
  ELSE IF b = <<>> THEN FALSE
  ELSE IF Head(a) = Head(b) THEN IsSubsequence(Tail(a), Tail(b))
  ELSE IsSubsequence(a, Tail(b))

\* C16: minimize_with_oracle applied to its own output with the same oracle
\* returns the event sequence and the is_minimized flag of the first call.
C16_Idempotent ==
  (mRun = 2 /\ mPc = "done") =>
    /\ mOut.events = mFirst.events
    /\ mOut.is_minimized = mFirst.is_minimized

\* The second call has returned after a first call that deleted events, and
\* it has tried (and the oracle has refused) every single deletion.
C16_Witness ==
  /\ mRun = 2
  /\ mPc = "done"
  /\ mFirst.is_minimized
  /\ Cardinality(mOracle.yes) >= 2
  /\ Len(mFirst.events) >= 1
  /\ Cardinality(mTried) >= 1

\* What minimize_with_oracle has returned when the oracle accepted its input.
MinimalAtReturn ==
  (mPc = "done" /\ mCx.kind = "Trace" /\ mCx.events \in mOracle.yes) =>
    /\ IsSubsequence(mOut.events, mCx.events)
    /\ mOut.events \in mOracle.yes
    /\ \A idx \in 1 .. Len(mOut.events) : RemoveAt(mOut.events, idx) \in mOracle.no
    /\ mOut.is_minimized
    /\ mOut.kind = mCx.kind
    /\ mOut.tags = mCx.tags
    /\ mOut.source_spans = mCx.source_spans

\* C17: when the oracle accepts the input, minimize_with_oracle returns, and
\* what it returns is a subsequence of the input that the oracle accepts, none
\* of whose single-event deletions the oracle accepts, with is_minimized =
\* true and the tags and source spans of the input.
C17_OneMinimal == []MinimalAtReturn /\ (mPc = "scan" ~> mPc = "done")

\* A call on an accepted input of three events has returned one event.
C17_Witness ==
  /\ mPc = "done"
  /\ mRun = 1
  /\ mCx.events \in mOracle.yes
  /\ Len(mCx.events) = 3
  /\ Len(mOut.events) = 1
  /\ mOut.is_minimized

\* C18: when the oracle rejects the input (or its kind is not Trace),
\* minimize_with_oracle returns the input with is_minimized = false, and it
\* has built no candidate and asked the oracle about nothing but the input.
C18_RejectedInput ==
  (mPc = "done" /\ (mCx.kind # "Trace" \/ mCx.events \in mOracle.no)) =>
    /\ mOut.events = mCx.events
    /\ mOut.is_minimized = FALSE
    /\ mOut.kind = mCx.kind
    /\ mOut.tags = mCx.tags
    /\ mOut.source_spans = mCx.source_spans
    /\ mTried = {}
    /\ mCx.kind = "Trace" => mOracle = [yes |-> {}, no |-> {mCx.events}]

\* The oracle has rejected an input of two events whose flag was set.
C18_Witness ==
  /\ mPc = "done"
  /\ mRun = 1
  /\ mCx.events \in mOracle.no
  /\ Len(mCx.events) = 2
  /\ mCx.is_minimized
  /\ ~mOut.is_minimized

----------------------------------------------------------------------------
(* The status of a run. *)

\* The order Pass < Unsupported < Fail < Timeout < OutOfMemory < Error.
StatusOrder == <<"Pass", "Unsupported", "Fail", "Timeout", "OutOfMemory", "Error">>

StatusPosition(status) == CHOOSE i \in 1 .. Len(StatusOrder) : StatusOrder[i] = status

\* The maximum of the statuses of `checks` under StatusOrder, Pass for none.
WorstStatus(checks) ==
  IF checks = <<>> THEN "Pass"
  ELSE checks[CHOOSE i \in 1 .. Len(checks) :
                \A j \in 1 .. Len(checks) : StatusPosition(checks[j]) <= StatusPosition(checks[i])]

ExitCodeTable ==
  [Pass |-> 0, Fail |-> 1, Error |-> 2, Unsupported |-> 3, Timeout |-> 4, OutOfMemory |-> 5]

\* C20: the status of a run is the maximum of the statuses of its checks under
\* Pass < Unsupported < Fail < Timeout < OutOfMemory < Error (Pass without
\* checks), and the exit code is Pass 0, Fail 1, Error 2, Unsupported 3,
\* Timeout 4, OutOfMemory 5 of that status.
C20_AggregateStatus ==
  sPc = "exited" =>
    /\ sStatus = WorstStatus(sChecks)
    /\ sExit = ExitCodeTable[WorstStatus(sChecks)]

\* A run whose checks ended Fail, Unsupported, Timeout has exited with 4.
C20_Witness ==
  /\ sPc = "exited"
  /\ sChecks = <<"Fail", "Unsupported", "Timeout">>
  /\ sStatus = "Timeout"
  /\ sExit = 4

----------------------------------------------------------------------------
(* The failure class of the counterexample a check returns. *)

\* The counterexample of result r, replayed, shows the failure class of each
\* class tag it carries.
ShowsFailureClass(r) ==
  LET Shows(replay) ==
        /\ <<"trace_mismatch">> \in Range(r.tags) =>
             (replay.ok /\ replay.trace_mismatch)
        /\ <<"refusal_mismatch">> \in Range(r.tags) =>
             (replay.ok /\ has_refusal_mismatch(replay))
        /\ <<"divergence_mismatch">> \in Range(r.tags) =>
             /\ TAU \in Range(r.events)
             /\ replay.ok
             /\ closure_has_tau_cycle(replay.impl_closure)
             /\ ~closure_has_tau_cycle(replay.spec_closure)
  IN Shows(replay_trace(r.events))

\* C19: the counterexample of every failing refinement check, replayed from
\* the initial tau-closures of impl and spec, shows the failure class of its
\* tags: trace_mismatch an impl trace the spec cannot perform,
\* refusal_mismatch an end node violating the stable-offer predicate,
\* divergence_mismatch a trace with tau reaching an impl closure that
\* diverges where the spec closure does not.
C19_FailureClassPreserved ==
  \A model \in Range(Models) : rResults[model].status = "Fail" => ShowsFailureClass(rResults[model])

\* What the checks do provide: a counterexample tagged trace_mismatch or
\* refusal_mismatch shows that class when replayed, and one tagged
\* divergence_mismatch contains tau and can be replayed on the implementation.
VisibleFailureClassPreserved ==
  \A model \in Range(Models) :
    rResults[model].status = "Fail" =>
      /\ (<<"divergence_mismatch">> \notin Range(rResults[model].tags)) => ShowsFailureClass(rResults[model])
      /\ (<<"divergence_mismatch">> \in Range(rResults[model].tags)) =>
           /\ TAU \in Range(rResults[model].events)
           /\ replay_trace(rResults[model].events).ok

----------------------------------------------------------------------------
(* Reference semantics of the node predicates of F and FD, on the edges of  *)
(* the transition system.                                                   *)

RefStable(s) == \A e \in lts : e[1] = s => e[2] # TAU

RefOffer(s) == {e[2] : e \in {d \in lts : d[1] = s /\ d[2] # TAU}}

\* The stable states of the impl closure of `node` whose offer no stable
\* state of its spec closure matches with a subset.
Unmatched(node) ==
  {s \in Range(node[1]) :
     /\ RefStable(s)
     /\ \A t \in Range(node[2]) : RefStable(t) => ~(RefOffer(t) \subseteq RefOffer(s))}

\* C has a cycle of tau transitions that stay inside C.
RefTauCycle(C) ==
  LET Inside == {e \in lts : e[1] \in C /\ e[2] = TAU /\ e[3] \in C}
  IN \E e \in Inside : e[1] \in ReachableFrom(Inside, {e[3]})

RefEnabled(node) == {e[2] : e \in {d \in lts : d[1] \in Range(node[1]) /\ d[2] # TAU}}

\* A step of the search of `model` that takes a node from the queue.
SearchStep(model) == rModel = model /\ ~rOutcome.done /\ rQueue # <<>> /\ rvars' # rvars

\* The nodes the search has taken from its queue.
Popped == rVisited \ Range(rQueue)

\* The step of the search at `node` is a node failure with `tags` first and
\* `trace`, and nothing was expanded.
FailsAtNode(tags, trace) ==
  /\ rOutcome'.done
  /\ ~rOutcome'.refines
  /\ SubSeq(rOutcome'.failure.tags, 1, Len(tags)) = tags
  /\ rOutcome'.failure.trace = trace
  /\ rVisited' = rVisited
  /\ rCount' = rCount

\* The step of the search at `node` went on to the expansion: every enabled
\* visible label of the impl closure was followed, up to the first one the
\* specification cannot follow, which ends the search with a trace mismatch.
Expanded(node) ==
  /\ <<"refusal_mismatch">> \notin Range(rOutcome'.failure.tags)
  /\ <<"divergence_mismatch">> \notin Range(rOutcome'.failure.tags)
  /\ IF rOutcome'.done
     THEN /\ ~rOutcome'.refines
          /\ rOutcome'.failure.tags = <<(<<"trace_mismatch">>)>>
          /\ \E l \in RefEnabled(node) :
               /\ rOutcome'.failure.trace = Append(reconstruct_trace(rPred, node), l)
               /\ next_by_label(node[2], l) = <<>>
     ELSE /\ rCount'.transitions = rCount.transitions + Cardinality(RefEnabled(node))
          /\ \A l \in RefEnabled(node) :
               <<next_by_label(node[1], l), next_by_label(node[2], l)>> \in rVisited'

\* C28: under F, no node taken from the queue before had an unmatched stable
\* impl state; the search fails with refusal_mismatch and the predecessor
\* path of the node exactly when the node has one, and goes on to the
\* expansion of the node otherwise.
C28_RefusalAtFirstNode ==
  [][SearchStep("F") =>
       /\ \A n \in Popped : Unmatched(n) = {}
       /\ Unmatched(Head(rQueue)) # {} =>
            FailsAtNode(<<(<<"refusal_mismatch">>)>>, reconstruct_trace(rPred, Head(rQueue)))
       /\ Unmatched(Head(rQueue)) = {} => Expanded(Head(rQueue))]_vars

\* The F search has failed with refusal_mismatch at a node reached by a
\* visible event, after the initial node passed.
C28_Witness ==
  /\ rModel = "F"
  /\ rOutcome.done
  /\ ~rOutcome.refines
  /\ <<"refusal_mismatch">> \in Range(rOutcome.failure.tags)
  /\ Len(rOutcome.failure.trace) >= 1

\* The search has failed with refusal_mismatch.
RefusalFailure ==
  /\ rModel # "none"
  /\ rOutcome.done
  /\ ~rOutcome.refines
  /\ <<"refusal_mismatch">> \in Range(rOutcome.failure.tags)

\* The node the failure was found at: the one with the reported trace.
FailingNodes == {n \in Popped : reconstruct_trace(rPred, n) = rOutcome.failure.trace}

\* The failing stable impl state: the first unmatched one of the closure.
FirstUnmatched(node) == CHOOSE s \in Unmatched(node) : \A u \in Unmatched(node) : s <= u

\* The labels l of the tags refuse:l.
RefuseLabels(tags) == {t[2] : t \in {u \in Range(tags) : Len(u) = 2 /\ u[1] = "refuse"}}

\* l is offered by a stable state of the spec closure of `node` and not by
\* its failing impl state.
RefusedBy(node, l) ==
  /\ \E t \in Range(node[2]) : RefStable(t) /\ l \in RefOffer(t)
  /\ l \notin RefOffer(FirstUnmatched(node))

\* C29 as stated: every failure tagged refusal_mismatch carries a tag
\* refuse:l with l offered by a stable spec state and not by the failing
\* impl state.
C29_Original ==
  RefusalFailure =>
    /\ FailingNodes # {}
    /\ \A n \in FailingNodes : \E l \in RefuseLabels(rOutcome.failure.tags) : RefusedBy(n, l)

\* C29: a failure tagged refusal_mismatch carries exactly one tag refuse:l,
\* with l offered by a stable spec state and not by the failing impl state,
\* when the spec closure of the failing node has a stable state; when it
\* has none the failure carries no tag refuse:l. The counterexample built
\* from the failure carries the same refuse tags.
C29_RefuseTag ==
  RefusalFailure =>
    /\ FailingNodes # {}
    /\ \A n \in FailingNodes :
         IF \E t \in Range(n[2]) : RefStable(t)
         THEN /\ Cardinality(RefuseLabels(rOutcome.failure.tags)) = 1
              /\ Len(rOutcome.failure.tags) = 2
              /\ \A l \in RefuseLabels(rOutcome.failure.tags) : RefusedBy(n, l)
         ELSE rOutcome.failure.tags = <<(<<"refusal_mismatch">>)>>
    /\ RefuseLabels(CheckResultOf(rModel, rOutcome, rCount, rFd).tags)
         = RefuseLabels(rOutcome.failure.tags)

\* A refusal failure against a specification with a stable state, carrying
\* refuse:a.
C29_Witness ==
  /\ RefusalFailure
  /\ RefuseLabels(rOutcome.failure.tags) = {"a"}
  /\ \A n \in FailingNodes : \E t \in Range(n[2]) : RefStable(t)

\* The step of the search at a node left the node out: no failure, no
\* successor, no transition counted.
Pruned ==
  /\ rOutcome' = rOutcome
  /\ rQueue' = Tail(rQueue)
  /\ rVisited' = rVisited
  /\ rPred' = rPred
  /\ rCount' = rCount

\* C30: under FD, a node whose impl closure has a tau cycle and whose spec
\* closure has none ends the search with the tags divergence_mismatch,
\* divergence and the path to the node followed by tau; a node whose spec
\* closure has a tau cycle is pruned; any other node is treated as under F.
C30_FdNode ==
  [][SearchStep("FD") =>
       IF RefTauCycle(Range(Head(rQueue)[1])) /\ ~RefTauCycle(Range(Head(rQueue)[2]))
       THEN /\ FailsAtNode(<<(<<"divergence_mismatch">>), (<<"divergence">>)>>,
                           Append(reconstruct_trace(rPred, Head(rQueue)), TAU))
            /\ Len(rOutcome'.failure.tags) = 2
       ELSE IF RefTauCycle(Range(Head(rQueue)[2]))
       THEN Pruned
       ELSE IF Unmatched(Head(rQueue)) # {}
       THEN FailsAtNode(<<(<<"refusal_mismatch">>)>>, reconstruct_trace(rPred, Head(rQueue)))
       ELSE Expanded(Head(rQueue))]_vars

\* The FD search has failed on a divergence of the implementation found
\* after a visible event.
C30_Witness ==
  /\ rModel = "FD"
  /\ rOutcome.done
  /\ ~rOutcome.refines
  /\ rOutcome.failure.tags = <<(<<"divergence_mismatch">>), (<<"divergence">>)>>
  /\ Len(rOutcome.failure.trace) >= 2
  /\ rOutcome.failure.trace[Len(rOutcome.failure.trace)] = TAU
----------------------------------------------------------------------------
(* The property checkers against the transition system they search. *)

PropReachable == ReachableFrom(lts, {implInit})

DeadEnd(s) == \A e \in lts : e[1] # s

TauEdgesOf(edges) == {e \in edges : e[2] = TAU}

OnTauCycle(s) ==
  \E e \in TauEdgesOf(lts) : e[1] = s /\ s \in ReachableFrom(TauEdgesOf(lts), {e[3]})

TauReach(s) == ReachableFrom(TauEdgesOf(lts), {s})

Nondeterministic(s, l) ==
  \E e1 \in lts, e2 \in lts :
    /\ e1[1] \in TauReach(s) /\ e1[2] = l
    /\ e2[1] \in TauReach(s) /\ e2[2] = l
    /\ TauReach(e1[3]) # TauReach(e2[3])

RECURSIVE NonTau(_)
NonTau(labels) ==
  IF labels = <<>> THEN <<>>
  ELSE IF Head(labels) = TAU THEN NonTau(Tail(labels))
       ELSE <<Head(labels)>> \o NonTau(Tail(labels))

\* The states at most k transitions away from the initial state.
RECURSIVE Within(_)
Within(k) ==
  IF k = 0 THEN {implInit}
  ELSE LET Grown(near) == near \cup {e[3] : e \in {d \in lts : d[1] \in near}}
       IN Grown(Within(k - 1))

Distance(s) == CHOOSE k \in 0 .. MaxPropState : s \in Within(k) /\ \A j \in 0 .. k - 1 : s \notin Within(j)

\* The predecessor chain of s is a shortest path of the transition system
\* from the initial state to s.
RECURSIVE IsTreePath(_)
IsTreePath(s) ==
  IF s \in DOMAIN pPrev
  THEN /\ <<pPrev[s][1], pPrev[s][2], s>> \in lts
       /\ Distance(s) = Distance(pPrev[s][1]) + 1
       /\ IsTreePath(pPrev[s][1])
  ELSE s = implInit

\* The discovery order is a breadth-first order.
BreadthFirstOrder ==
  \A i \in 1 .. Len(pOrder), j \in 1 .. Len(pOrder) :
    i < j => pOrder[i] # pOrder[j] /\ Distance(pOrder[i]) <= Distance(pOrder[j])

\* The first position of pOrder whose state satisfies P is i.
FirstInOrder(i, P(_)) == P(pOrder[i]) /\ \A j \in 1 .. i - 1 : ~P(pOrder[j])

PropReturned(kind) == pKind = kind /\ pPc = "done"

\* C24: the deadlock-free check returns Fail exactly when some reachable
\* state has no outgoing transition and Pass otherwise; on Fail its events
\* are the labels other than tau of the breadth-first tree path to the first
\* state without transitions in breadth-first order.
C24_DeadlockCheck ==
  PropReturned("deadlock") =>
    /\ pResult.status \in {"Pass", "Fail"}
    /\ pResult.status = "Fail" <=> \E s \in PropReachable : DeadEnd(s)
    /\ pResult.has_counterexample <=> pResult.status = "Fail"
    /\ BreadthFirstOrder
    /\ pResult.status = "Fail" =>
         \E i \in 1 .. Len(pOrder) :
           /\ FirstInOrder(i, DeadEnd)
           /\ IsTreePath(pOrder[i])
           /\ pResult.events = NonTau(reconstruct_trace(pPrev, pOrder[i]))

\* A deadlock found behind a tau transition and a visible one.
C24_Witness ==
  /\ PropReturned("deadlock")
  /\ pResult.status = "Fail"
  /\ pResult.events = <<"a">>
  /\ \E i \in 1 .. Len(pOrder) :
       /\ FirstInOrder(i, DeadEnd)
       /\ Len(reconstruct_trace(pPrev, pOrder[i])) = 2

\* C25: the divergence-free check returns Fail exactly when some reachable
\* state lies on a cycle of tau transitions (a tau self-loop included); on
\* Fail its events are the visible labels of the breadth-first tree path to
\* the first such state in discovery order, followed by exactly one tau.
C25_DivergenceCheck ==
  PropReturned("divergence") =>
    /\ pResult.status \in {"Pass", "Fail"}
    /\ pResult.status = "Fail" <=> \E s \in PropReachable : OnTauCycle(s)
    /\ pResult.has_counterexample <=> pResult.status = "Fail"
    /\ BreadthFirstOrder
    /\ pResult.status = "Fail" =>
         \E i \in 1 .. Len(pOrder) :
           /\ FirstInOrder(i, OnTauCycle)
           /\ IsTreePath(pOrder[i])
           /\ pResult.events = Append(NonTau(reconstruct_trace(pPrev, pOrder[i])), TAU)

\* A tau self-loop found behind a tau transition and a visible one.
C25_Witness ==
  /\ PropReturned("divergence")
  /\ pResult.status = "Fail"
  /\ pResult.events = <<"a", TAU>>
  /\ \E i \in 1 .. Len(pOrder) :
       /\ FirstInOrder(i, OnTauCycle)
       /\ <<pOrder[i], TAU, pOrder[i]>> \in lts
       /\ Len(reconstruct_trace(pPrev, pOrder[i])) = 2

\* C26: the determinism check returns Fail exactly when there are a
\* reachable state s and a visible label l such that two l-transitions
\* leaving states of the tau closure of s lead to states whose tau closures
\* differ; on Fail the events are the visible trace to such an s followed by
\* l, and the tags are nondeterminism and label:l.
C26_DeterminismCheck ==
  PropReturned("determinism") =>
    /\ pResult.status \in {"Pass", "Fail"}
    /\ pResult.status = "Fail" <=>
         \E s \in PropReachable, l \in Range(VisibleLabels) : Nondeterministic(s, l)
    /\ pResult.has_counterexample <=> pResult.status = "Fail"
    /\ pResult.status = "Fail" =>
         \E s \in PropReachable, l \in Range(VisibleLabels) :
           /\ Nondeterministic(s, l)
           /\ IsTreePath(s)
           /\ pResult.events = Append(NonTau(reconstruct_trace(pPrev, s)), l)
           /\ <<"nondeterminism">> \in Range(pResult.tags)
           /\ <<"label", l>> \in Range(pResult.tags)

\* Two a-transitions, one of the initial state and one of a state of its tau
\* closure, to states with different tau closures.
C26_Witness ==
  /\ PropReturned("determinism")
  /\ pResult.status = "Fail"
  /\ pResult.events = <<"a">>
  /\ \E e1 \in lts, e2 \in lts :
       /\ e1[1] = implInit /\ e1[2] = "a"
       /\ e2[1] \in TauReach(implInit) \ {implInit} /\ e2[2] = "a"
       /\ TauReach(e1[3]) # TauReach(e2[3])

Occurrences(tags, tag) == Cardinality({i \in 1 .. Len(tags) : tags[i] = tag})

KindOf(check) == IF check = "determinism" THEN "nondeterminism" ELSE check

\* C27: every counterexample returned by the deadlock, divergence and
\* determinism checkers carries the tags <k>, kind:<k> and explained, each
\* exactly once (k = deadlock, divergence, nondeterminism).
C27_ExplainedTags ==
  (pKind \in PropKinds /\ pPc = "done" /\ pResult.has_counterexample) =>
    /\ Occurrences(pResult.tags, <<KindOf(pKind)>>) = 1
    /\ Occurrences(pResult.tags, <<"kind", KindOf(pKind)>>) = 1
    /\ Occurrences(pResult.tags, <<"explained">>) = 1

----------------------------------------------------------------------------
(* The CSPM transition provider: order of transitions, codec, canonical form. *)

\* x is not greater than y in the lexicographic order of byte strings.
LexLeq(x, y) ==
  \/ Len(x) <= Len(y) /\ SubSeq(y, 1, Len(x)) = x
  \/ \E k \in 1 .. Len(x) :
       /\ k <= Len(y)
       /\ SubSeq(x, 1, k - 1) = SubSeq(y, 1, k - 1)
       /\ x[k] < y[k]

SortedByLabelThenBytes(out) ==
  \A i \in 1 .. Len(out) - 1 :
    /\ LexLeq(out[i][1], out[i + 1][1])
    /\ out[i][1] = out[i + 1][1] => LexLeq(cspm_encode(out[i][2]), cspm_encode(out[i + 1][2]))

\* The two sequences hold the same elements the same number of times.
SameElements(s, t) ==
  /\ Len(s) = Len(t)
  /\ \A x \in Range(s) \cup Range(t) :
       Cardinality({i \in 1 .. Len(s) : s[i] = x}) = Cardinality({i \in 1 .. Len(t) : t[i] = x})

\* C21: for every reachable state of a compiled program, transitions()
\* returns the same sequence on every call, and that sequence is sorted
\* non-decreasing by label and then by the encoded bytes of the next state.
C21_SortedTransitions ==
  cCall.called =>
    /\ cCall.state \in cVisited
    /\ cCall.first = cCall.second
    /\ SortedByLabelThenBytes(cCall.first)
    /\ SameElements(cCall.first, transitions_for_state_unordered(cProgram, cCall.state))

\* Two transitions with one label to different states, collected in another
\* order than the one returned.
C21_Witness ==
  /\ cCall.called
  /\ \E i \in 1 .. Len(cCall.first) - 1 :
       /\ cCall.first[i][1] = cCall.first[i + 1][1]
       /\ cCall.first[i][2] # cCall.first[i + 1][2]
  /\ transitions_for_state_unordered(cProgram, cCall.state) # cCall.first

\* C22: decoding the encoding of a reachable state gives the state back, and
\* no two reachable states have the same encoding, so that storing states by
\* their bytes keeps exactly the distinct states.
C22_CodecRoundTrip ==
  /\ cCall.called =>
       /\ cCall.bytes = cspm_encode(cCall.state)
       /\ cCall.decoded.ok
       /\ cCall.decoded.val = cCall.state
  /\ cBytes = {cspm_encode(s) : s \in cVisited}
  /\ Cardinality(cBytes) = Cardinality(cVisited)

\* A hiding state over two channels around an expression state with a
\* binding, among at least two states stored.
C22_Witness ==
  /\ cCall.called
  /\ cCall.state[1] = "Hide"
  /\ Cardinality(cCall.state[2]) = 2
  /\ cCall.state[3][1] = "Expr"
  /\ DOMAIN cCall.state[3][3] # {}
  /\ cCall.decoded.val = cCall.state
  /\ Cardinality(cBytes) >= 2

RECURSIVE Canonical(_)
Canonical(state) ==
  CASE state[1] = "Expr" -> cProgram.exprs[state[2] + 1][1] \notin {"Ref", "Parallel", "Hide"}
    [] state[1] = "Parallel" -> Canonical(state[3]) /\ Canonical(state[4])
    [] state[1] = "Hide" -> state[2] # {} /\ state[3][1] # "Hide" /\ Canonical(state[3])

----------------------------------------------------------------------------
(* The CSPM transition provider: the rules of parallel composition and of   *)
(* hiding, stated on the transitions of the components.                     *)

\* The text of the label before its first '.' is one of the channels.
OnChannel(label, channels) ==
  \E ch \in channels :
    /\ 46 \notin Range(ch)
    /\ \/ label = ch
       \/ /\ Len(label) > Len(ch)
          /\ SubSeq(label, 1, Len(ch)) = ch
          /\ label[Len(ch) + 1] = 46

Synchronized(label, sync) == label # TauLabel /\ OnChannel(label, sync)

\* How often the rule of Parallel{sync, left, right} yields the transition t.
ParallelRuleCount(t, sync, left, right, left_next, right_next) ==
  Cardinality({p \in (1 .. Len(left_next)) \X (1 .. Len(right_next)) :
                 /\ Synchronized(t[1], sync)
                 /\ left_next[p[1]][1] = t[1] /\ right_next[p[2]][1] = t[1]
                 /\ t[2] = <<"Parallel", sync, left_next[p[1]][2], right_next[p[2]][2]>>})
  + Cardinality({i \in 1 .. Len(left_next) :
                   /\ ~Synchronized(left_next[i][1], sync)
                   /\ t = <<left_next[i][1], <<"Parallel", sync, left_next[i][2], right>> >>})
  + Cardinality({j \in 1 .. Len(right_next) :
                   /\ ~Synchronized(right_next[j][1], sync)
                   /\ t = <<right_next[j][1], <<"Parallel", sync, left, right_next[j][2]>> >>})

\* The number of transitions the rule yields in all.
ParallelRuleTotal(sync, left_next, right_next) ==
  Cardinality({p \in (1 .. Len(left_next)) \X (1 .. Len(right_next)) :
                 /\ Synchronized(left_next[p[1]][1], sync)
                 /\ right_next[p[2]][1] = left_next[p[1]][1]})
  + Cardinality({i \in 1 .. Len(left_next) : ~Synchronized(left_next[i][1], sync)})
  + Cardinality({j \in 1 .. Len(right_next) : ~Synchronized(right_next[j][1], sync)})

ParallelRule(out, sync, left, right, left_next, right_next) ==
  /\ Len(out) = ParallelRuleTotal(sync, left_next, right_next)
  /\ \A t \in Range(out) :
       Occurrences(out, t) = ParallelRuleCount(t, sync, left, right, left_next, right_next)

HideSetOf(state) == IF state[1] = "Hide" THEN state[2] ELSE {}
CoreOf(state) == IF state[1] = "Hide" THEN state[3] ELSE state

\* t is what the rule of Hide{hide, inner} makes of the transition u of inner.
HiddenFrom(t, hide, u) ==
  /\ t[1] = IF u[1] = TauLabel \/ OnChannel(u[1], hide) THEN TauLabel ELSE u[1]
  /\ HideSetOf(t[2]) = hide \cup HideSetOf(u[2])
  /\ CoreOf(t[2]) = CoreOf(u[2])

HideRule(out, hide, inner_next) ==
  /\ Len(out) = Len(inner_next)
  /\ \A t \in Range(out) :
       Occurrences(out, t) = Cardinality({i \in 1 .. Len(inner_next) : HiddenFrom(t, hide, inner_next[i])})
  /\ \A t \in Range(out) : t[1] # TauLabel => ~OnChannel(t[1], hide)

\* C32: the transitions of a Hide{hide, inner} state are one for each
\* transition of inner, labelled tau if the inner label is tau or its text
\* before the first '.' is in hide and labelled as inner otherwise; no
\* visible label of a Hide state is on a hidden channel.
C32_HideRule ==
  (cCall.called /\ cCall.state[1] = "Hide") =>
    HideRule(cCall.first, cCall.state[2], transitions_for(cProgram, cCall.state[3]))

\* A state hiding c whose inner state offers c.0 and c.1: two tau transitions.
C32_Witness ==
  /\ cCall.called
  /\ cCall.state[1] = "Hide"
  /\ ChanC \in cCall.state[2]
  /\ \E u \in Range(transitions_for(cProgram, cCall.state[3])) : u[1] = DotLabel(ChanC, 1)
  /\ Len(cCall.first) = 2
  /\ \A t \in Range(cCall.first) : t[1] = TauLabel

----------------------------------------------------------------------------
(* Recursion without a guard. *)

\* The expressions the body of the process stands for before any prefix is
\* passed: the operands of choices, parallel and hiding.
RECURSIVE Unguarded(_, _)
Unguarded(exprs, from) ==
  LET Operands(node) ==
        CASE node[1] \in {"ChoiceExternal", "ChoiceInternal", "Parallel"} -> {node[2], node[3]}
          [] node[1] = "Hide" -> {node[2]}
          [] OTHER -> {}
      more == from \cup UNION {Operands(exprs[id + 1]) : id \in from}
  IN IF more = from THEN from ELSE Unguarded(exprs, more)

ReachesItselfUnguarded(program) ==
  \E id \in Unguarded(program.exprs, {program.proc_roots[1]}) : program.exprs[id + 1][1] = "Ref"

\* C33: from_module rejects with "cyclic process reference" every module
\* whose process reaches a reference to itself without passing a prefix, and
\* for an accepted module neither the initial state nor transitions() on a
\* reachable state recurses without end.
C33_UnguardedRejected ==
  /\ (cStatus # "module" /\ ReachesItselfUnguarded(cProgram))
       => cStatus = "cyclic process reference"
  /\ cStatus # "overflow"

----------------------------------------------------------------------------
(* The serial explorer against reachability. *)

NoDuplicates(seq) == \A i \in 1 .. Len(seq), j \in 1 .. Len(seq) : seq[i] = seq[j] => i = j

\* What a finished serial run leaves: the store holds the reachable states,
\* each of them was expanded once and no other state at all, and the Stats
\* count the stored states and every transition returned for them.
SerialDone ==
  /\ ePc = "done"
  /\ eStore = RefReach
  /\ \A s \in States : eExpanded[s] = IF s \in RefReach THEN 1 ELSE 0
  /\ eStats.states = Cardinality(eStore)
  /\ eStats.transitions = SumLen(eProvider, RefReach)

\* While it runs no state is expanded twice, and the queue holds each stored
\* state that is not expanded yet once.
SerialRunning ==
  /\ \A s \in States : eExpanded[s] <= 1
  /\ ePc = "loop" =>
       /\ NoDuplicates(eFrontier)
       /\ Range(eFrontier) = {s \in eStore : eExpanded[s] = 0}
  /\ ePc = "done" => SerialDone

\* C34: on a provider with finitely many reachable states and an empty
\* store, serial explore returns; it has then expanded every reachable state
\* exactly once, and its Stats are the number of reachable states, which is
\* the size of the store, and the number of transitions returned for the
\* reachable states, equal targets counted each time.
C34_SerialExplore == []SerialRunning /\ (ePc = "init" ~> SerialDone)

\* A finished run on a provider that returns the same target twice and has a
\* cycle: three states, three transitions.
C34_Witness ==
  /\ ePc = "done"
  /\ eMode = "serial"
  /\ \E s \in States : Len(eProvider[s]) = 2 /\ eProvider[s][1] = eProvider[s][2]
  /\ \E s \in States : eInitial \in Range(eProvider[s])
  /\ eStats.transitions = 3
  /\ eStats.transitions > Cardinality(UNION {{<<s, t>> : t \in Range(eProvider[s])} : s \in States})

----------------------------------------------------------------------------
(* tau_closure against reachability along tau. *)

StrictlyAscending(seq) == \A i \in 1 .. Len(seq) - 1 : seq[i] < seq[i + 1]

\* C35: tau_closure(seeds) holds exactly the states reachable from the seeds
\* by zero or more tau transitions, each once, in ascending order of their
\* encoding; any seeds with the same set of states give the same closure,
\* the closure of the states of a closure is that closure, and no seeds give
\* the empty closure.
C35_TauClosure ==
  rCall.called =>
    /\ Range(rCall.closure) = ReachableFrom(TauEdges, Range(rCall.seeds))
    /\ StrictlyAscending(rCall.closure)
    /\ \A other \in SeqsUpTo(LtsStates, MaxSeeds) :
         Range(other) = Range(rCall.seeds) => tau_closure(other) = rCall.closure
    /\ tau_closure(rCall.closure) = rCall.closure
    /\ rCall.seeds = <<>> => rCall.closure = <<>>

\* The seeds <<1, 1>> under a provider with a tau transition from 1 to 0 and
\* a visible transition: the closure <<0, 1>>, in another order than found.
C35_Witness ==
  /\ rCall.called
  /\ rCall.seeds = <<1, 1>>
  /\ <<1, TAU, 0>> \in lts
  /\ \E e \in lts : e[2] # TAU
  /\ rCall.closure = <<0, 1>>

----------------------------------------------------------------------------
(* The FD caches against recomputation. *)

\* Every entry of the two caches holds what recomputation from the closure's
\* states returns for its key.
CacheEntriesExact ==
  /\ \A key \in DOMAIN rFd.nextCache :
       rFd.nextCache[key] = next_by_label(key[2], key[3])
  /\ \A key \in DOMAIN rFd.divCache :
       rFd.divCache[key] = closure_has_tau_cycle(key[2])

\* The FD node predicate with has_tau_cycle called directly.
UncachedFdNodeCheck(node_key, pred, fd) ==
  FdDecide(node_key, pred,
           [value |-> closure_has_tau_cycle(node_key[2]), fd |-> fd],
           [value |-> closure_has_tau_cycle(node_key[1]), fd |-> fd],
           StableOfferCheck(node_key[1], 1, stable_offer_sets(node_key[2]), pred, node_key))

\* One iteration of the FD search with both caches disabled: the node
\* predicate above, and next_by_label called directly for every label.
UncachedFdIteration(queue, visited, pred, count, fd) ==
  AfterNodeCheck("F", Head(queue), UncachedFdNodeCheck(Head(queue), pred, fd),
                 [queue |-> Tail(queue), visited |-> visited, pred |-> pred,
                  states |-> count.states, transitions |-> count.transitions,
                  fd |-> fd, failed |-> FALSE, failure |-> NoFailure])

\* An iteration of the FD search leaves the queue, the visited set, the
\* predecessor map, the counts and the outcome the uncached iteration leaves.
FdStepAsUncached ==
  (rModel = "FD" /\ ~rOutcome.done /\ rQueue # <<>>) =>
    LET Same(st) ==
          /\ rQueue' = st.queue
          /\ rVisited' = st.visited
          /\ rPred' = st.pred
          /\ rCount' = [states |-> st.states, transitions |-> st.transitions]
          /\ rOutcome' = IF st.failed
                         THEN [done |-> TRUE, refines |-> FALSE, failure |-> st.failure]
                         ELSE NotDone
    IN Same(UncachedFdIteration(rQueue, rVisited, rPred, rCount, rFd))

----------------------------------------------------------------------------
(* The typechecker (frontend_simple.rs) and the bindings of reachable states. *)

\* typecheck_event on the channels a (no payload) and c (a range): whether
\* it returns Ok, and the variables bound after it.
typecheck_event(event, scope) ==
  CASE event[1] = "Unit" -> [ok |-> event[2] = ChanA, scope |-> scope]
    [] event[1] = "OutVar" -> [ok |-> event[2] = ChanC /\ event[3] \in scope, scope |-> scope]
    [] event[1] = "InBind" ->
         [ok |-> event[2] = ChanC /\ event[3] \notin scope, scope |-> scope \cup {event[3]}]

\* typecheck_process_expr on the expression with node `expr`, with the
\* variables `scope` bound: whether it returns Ok.
RECURSIVE typecheck_process_expr(_, _, _)
typecheck_process_expr(exprs, expr, scope) ==
  LET node == exprs[expr + 1]
      AfterEvent(r) == r.ok /\ typecheck_process_expr(exprs, node[3], r.scope)
  IN CASE node[1] \in {"Stop", "Ref"} -> TRUE
       [] node[1] = "Prefix" -> AfterEvent(typecheck_event(node[2], scope))
       [] node[1] \in {"ChoiceExternal", "ChoiceInternal", "Parallel"} ->
            /\ typecheck_process_expr(exprs, node[2], scope)
            /\ typecheck_process_expr(exprs, node[3], scope)
       [] node[1] = "Hide" -> typecheck_process_expr(exprs, node[2], scope)

\* typecheck_module on the module of one process: its body is checked with
\* no variable bound.
typecheck_module(program) ==
  typecheck_process_expr(program.exprs, program.proc_roots[1], {})

\* The Expr states a state is made of.
RECURSIVE ExprStates(_)
ExprStates(state) ==
  CASE state[1] = "Expr" -> {state}
    [] state[1] = "Parallel" -> ExprStates(state[3]) \cup ExprStates(state[4])
    [] state[1] = "Hide" -> ExprStates(state[3])

\* An Expr state at a prefix whose event sends a variable.
AtOutVar(program, s) ==
  /\ program.exprs[s[2] + 1][1] = "Prefix"
  /\ program.exprs[s[2] + 1][2][1] = "OutVar"

\* The variable is bound, and the event has its one transition.
OutVarBound(program, s) ==
  /\ program.exprs[s[2] + 1][2][3] \in DOMAIN s[3]
  /\ Len(eval_event(program.exprs[s[2] + 1][2], s[3])) = 1

----------------------------------------------------------------------------
(* The disk store: the lock file after a failed open and after a drop. *)

\* An open_with_options call that held the lock and returned an error has
\* left no lock file: the next LockGuard::acquire succeeds.
FailedOpenFreesLock ==
  (OpenReturned /\ dEvent.free /\ dEvent.result # "Ok") =>
    /\ ~dLock.exists
    /\ AcquireSucceeds(dLock)
    /\ dStore[dEvent.proc].pc = "closed"

\* A step that drops an open store leaves no lock file.
DropRemovesLock ==
  \A p \in Procs :
    (dStore[p].pc = "open" /\ dStore'[p].pc = "closed" /\ dClosed'.known) => ~dLock'.exists

----------------------------------------------------------------------------
(* The predecessor map of bfs_refinement. *)

\* The node the search starts from.
InitialNode == <<tau_closure(<<implInit>>), tau_closure(<<specInit>>)>>

\* The nodes one expansion of `node` reaches: none from a node FD prunes,
\* otherwise one per enabled label the specification can follow.
NodeSuccessors(model, node) ==
  IF model = "FD" /\ closure_has_tau_cycle(node[2]) THEN {}
  ELSE {succ \in {<<next_by_label(node[1], label), next_by_label(node[2], label)>> :
                    label \in Range(enabled_visible_labels(node[1]))} :
          succ[2] # <<>>}

\* The number of expansions on a shortest way from the nodes of `level`
\* (which are d expansions from the initial node) to target; -1 if none.
RECURSIVE NodeDepth(_, _, _, _, _)
NodeDepth(model, level, seen, target, d) ==
  IF target \in level THEN d
  ELSE IF level = {} THEN -1
  ELSE NodeDepth(model,
                 UNION {NodeSuccessors(model, node) : node \in level} \ (seen \cup level),
                 seen \cup level, target, d + 1)

\* The visited node without an entry.
SearchRoot == CHOOSE node \in rVisited : node \notin DOMAIN rPred

\* Following the entries from `node` ends at root and passes no node twice.
RECURSIVE ChainEndsAt(_, _, _, _)
ChainEndsAt(root, predecessor, node, passed) ==
  IF node \in passed THEN FALSE
  ELSE IF node \notin DOMAIN predecessor THEN node = root
  ELSE ChainEndsAt(root, predecessor, predecessor[node][1], passed \cup {node})

\* During a search and at its end: one visited node has no entry, every
\* other visited node has one, and each entry names a visited node.
PredecessorMapSound ==
  rModel # "none" =>
    /\ Cardinality(rVisited \ DOMAIN rPred) = 1
    /\ DOMAIN rPred \subseteq rVisited
    /\ \A node \in DOMAIN rPred : rPred[node][1] \in rVisited

\* A search starts with the initial node visited and no entry.
StartsAtInitialNode ==
  (rModel = "none" /\ rModel' # "none") => (rVisited' = {InitialNode} /\ rPred' = EmptyMap)

\* A step of a search keeps every visited node and every entry as it is and
\* adds one entry for each node it stores (and queues), no other; the entry
\* of a new node names a label that leads from the predecessor to the node,
\* its chain ends at the node without an entry, and its trace is as long as
\* its depth.  As no entry changes later, this stays so for every visited
\* node, and the node without an entry stays the initial one.
PredecessorWrittenOnce ==
  rModel # "none" =>
    /\ rVisited \subseteq rVisited'
    /\ \A node \in DOMAIN rPred : node \in DOMAIN rPred' /\ rPred'[node] = rPred[node]
    /\ DOMAIN rPred' \ DOMAIN rPred = rVisited' \ rVisited
    /\ \A node \in rVisited' \ rVisited :
         /\ node \in Range(rQueue')
         /\ node = <<next_by_label(rPred'[node][1][1], rPred'[node][2]),
                     next_by_label(rPred'[node][1][2], rPred'[node][2])>>
         /\ ChainEndsAt(SearchRoot, rPred', node, {})
         /\ Len(reconstruct_trace(rPred', node)) = NodeDepth(rModel, {SearchRoot}, {}, node, 0)

\* C39: in the refinement search every visited node but the initial one has
\* exactly one predecessor entry, written when the node is first queued and
\* never overwritten, and the initial node has none; the entries lead from
\* every visited node to the initial node without passing a node twice, so
\* reconstruct_trace ends, with as many labels as the node's depth.
C39_PredecessorMap ==
  []PredecessorMapSound /\ [][StartsAtInitialNode /\ PredecessorWrittenOnce]_vars

\* A search has stored a node of depth 2 and has since met a visited node
\* again.
C39_Witness ==
  /\ rModel # "none"
  /\ \E node \in rVisited : Len(reconstruct_trace(rPred, node)) = 2
  /\ rCount.transitions > Cardinality(DOMAIN rPred)

----------------------------------------------------------------------------
(* The counters of an FD run. *)

\* The tag `name` is among the tags, and the number it carries.
HasTag(tags, name) == \E i \in DOMAIN tags : tags[i][1] = name
TagNumber(tags, name) == tags[CHOOSE i \in DOMAIN tags : tags[i][1] = name][2]

\* The nodes taken from the queue so far: the node predicate ran on each.
NodesChecked == Cardinality(rVisited) - Len(rQueue)

\* During an FD search and at its end: two next-closure lookups per counted
\* transition, two divergence lookups per node checked.
FdCountersBalanced ==
  rModel = "FD" =>
    /\ rFd.nextHits + rFd.nextMisses = 2 * rCount.transitions
    /\ rFd.divHits + rFd.divMisses = rFd.divergence_checks
    /\ rFd.divergence_checks = 2 * NodesChecked

FdTagNames ==
  {"fd_nodes", "fd_edges", "fd_divergence_checks", "fd_pruned_nodes", "fd_impl_closure_max",
   "fd_spec_closure_max", "fd_closure_cache_hits", "fd_closure_cache_misses",
   "fd_divergence_cache_hits", "fd_divergence_cache_misses"}

\* The counterexample of a failed FD check carries the counters of its run
\* as fd_* tags, and the tags satisfy the same equations.
FdTagsCarryCounters ==
  rResults["FD"].status = "Fail" =>
    LET tags == rResults["FD"].tags
        fd == rResults["FD"].fd
    IN /\ \A name \in FdTagNames : HasTag(tags, name)
       /\ TagNumber(tags, "fd_edges") = rResults["FD"].transitions
       /\ TagNumber(tags, "fd_closure_cache_hits") = fd.nextHits
       /\ TagNumber(tags, "fd_closure_cache_misses") = fd.nextMisses
       /\ TagNumber(tags, "fd_divergence_cache_hits") = fd.divHits
       /\ TagNumber(tags, "fd_divergence_cache_misses") = fd.divMisses
       /\ TagNumber(tags, "fd_divergence_checks") = fd.divergence_checks
       /\ TagNumber(tags, "fd_closure_cache_hits") + TagNumber(tags, "fd_closure_cache_misses")
            = 2 * TagNumber(tags, "fd_edges")
       /\ TagNumber(tags, "fd_divergence_cache_hits") + TagNumber(tags, "fd_divergence_cache_misses")
            = TagNumber(tags, "fd_divergence_checks")

\* C40: in every FD run, next-closure cache hits plus misses are twice the
\* transitions counted, divergence cache hits plus misses are the divergence
\* checks, which are twice the nodes the node predicate ran on; a failed FD
\* check carries these counters as fd_* tags on its counterexample.
C40_FdCounters == FdCountersBalanced /\ FdTagsCarryCounters

\* A failed FD check whose run had hits and misses in both caches.
C40_Witness ==
  /\ rResults["FD"].status = "Fail"
  /\ rResults["FD"].fd.nextHits > 0
  /\ rResults["FD"].fd.divHits > 0
  /\ rResults["FD"].fd.nextMisses > 0
  /\ rResults["FD"].fd.divergence_prunes = 0
  /\ rResults["FD"].transitions >= 2

====
